---- MODULE Spec2Model ----
(***************************************************************************)
(* refcollector: the project scanner (tex_scanner.py), the numbering pass  *)
(* and the aggregator (collect_refs.py).                                   *)
(*                                                                         *)
(* Text is a sequence of symbols.  A symbol is a string: either a single   *)
(* character ("{", ",", " ", "%", "\n", "a") or a whole control sequence   *)
(* or marker that the regular expressions of the source match as a unit    *)
(* ("\\cite", "\\input", "\\begin{verbatim}", "\\iffalse", "\\fi").  The   *)
(* width of a symbol in characters is Len of its string, so that columns   *)
(* are character columns.  Every regular expression of the source is an    *)
(* operator over symbol sequences that matches what the expression         *)
(* matches on the text the symbols spell.                                  *)
(***************************************************************************)
EXTENDS Integers, Sequences, FiniteSets, TLC

VARIABLES
    tree,          \* the source tree: canonical file name -> raw text
    phase,         \* position of main(): scan_call, scan, num_call, num, done
    scan_stack,    \* call stack of scan_tex_project_citations.scan_file
    scan_visited,  \* visited of scan_tex_project_citations
    occurrences,   \* key -> list of occurrences
    scan_reads,    \* file -> number of read_text calls of the scanner
    num_stack,     \* call stack of compute_citation_numbers.scan_file
    num_visited,   \* visited of compute_citation_numbers
    numbers,       \* key -> sequence number
    counter,       \* counter of compute_citation_numbers
    num_reads,     \* file -> number of read_text calls of the numbering pass
    bib_entries,   \* build_output_data: the bibliography, a list of keys
    cit_occ,       \* build_output_data: its occurrences argument
    pdf_resolver,  \* build_output_data: the page resolver, or none
    cit_numbers,   \* build_output_data: key -> number (none and {} act alike)
    build_pc,      \* position of build_output_data: idle, cards, fill, returned
    be_idx,        \* position of the loop over bib_entries
    cards,         \* cards
    cards_sorted_idx, \* cards_sorted_idx
    used,          \* used
    next_num,      \* next_num
    fill_pos,      \* position of the loop over cards_sorted_idx
    returned,      \* the list build_output_data returns
    pdf_doc,       \* PdfLinenoResolver: the pages of the PDF, each a list of words
    self_band,     \* PdfLinenoResolver._band
    calls,         \* number of resolve calls made
    detect_runs,   \* number of runs of auto_detect_margin_band
    last_tool,     \* what the synctex run of the last resolve call did
    last_result,   \* what the last resolve call returned or raised
    bib_text,      \* parse_bibtex: its argument
    bib_clean,     \* parse_bibtex: text, the argument without its comments
    bib_pc,        \* position of parse_bibtex: idle, find, record, fields, append,
                   \* done, raised
    bib_i,         \* i, as a position from 1
    bib_at,        \* at
    bib_type,      \* entry_type
    bib_open,      \* brace_open_pos
    bib_j,         \* j
    bib_depth,     \* depth
    bib_key,       \* key
    fields_str,    \* fields_str
    bib_k,         \* k
    fields,        \* fields
    entries,       \* entries
    order_index,   \* order_index
    last_read      \* the last call of _read_value for the record at hand, and what
                   \* it returned

scanVars == <<scan_stack, scan_visited, occurrences, scan_reads>>
numVars == <<num_stack, num_visited, numbers, counter, num_reads>>
buildVars == <<bib_entries, cit_occ, pdf_resolver, cit_numbers, build_pc, be_idx,
               cards, cards_sorted_idx, used, next_num, fill_pos, returned>>
resolveVars == <<pdf_doc, self_band, calls, detect_runs, last_tool, last_result>>
bibVars == <<bib_text, bib_clean, bib_pc, bib_i, bib_at, bib_type, bib_open, bib_j, bib_depth,
             bib_key, fields_str, bib_k, fields, entries, order_index, last_read>>
vars == <<tree, phase, scan_stack, scan_visited, occurrences, scan_reads,
          num_stack, num_visited, numbers, counter, num_reads, buildVars, resolveVars,
          bibVars>>

(***************************************************************************)
(* Bounds of the input families.                                           *)
(***************************************************************************)
MaxMainLines == 3
MaxSubLines == 2
MaxBlockLines == 5
MaxKeyLen == 4
MaxBib == 2
MaxOccs == 2
MaxLine == 2
MaxCalls == 3
MaxPages == 6
MaxChunks == 3
MaxValLen == 4
MaxSoupLen == 4
MaxEndLines == 5
MaxLargePages == 2
MaxMixLines == 3

\* len(snippet) > 240
SnippetLimit == 240

(***************************************************************************)
(* Generic helpers.                                                        *)
(***************************************************************************)
Range(f) == {f[k] : k \in DOMAIN f}
SeqsUpTo(S, n) == UNION {[1..m -> S] : m \in 1..n}
MinOf(S) == CHOOSE i \in S : \A j \in S : i <= j
MaxOf(S) == CHOOSE i \in S : \A j \in S : i >= j

\* First index >= i of text t whose symbol is in S, or 0.
FindFrom(t, i, S) ==
    LET c == {j \in i..Len(t) : t[j] \in S}
    IN IF c = {} THEN 0 ELSE MinOf(c)

\* \s of the regular expressions, and the characters str.strip() removes.
IsSpace(s) == s \in {" ", "\t", "\n"}

\* \w: the symbols that start with a letter, a digit or an underscore.
IsWordStart(s) == s \in {"a", "b", "c", "x", "main", "sub", "ghost"} \/ Len(s) > 200

\* The symbols that start with a backslash.
CiteCmds ==
    {"\\cite", "\\citet", "\\citep", "\\Cite", "\\Citet", "\\Citep",
     "\\parencite", "\\textcite", "\\autocite", "\\smartcite",
     "\\footcite", "\\footcitetext", "\\citeauthor", "\\Citeauthor"}
IncludeCmds == {"\\input", "\\include", "\\subfile"}
IffalseSyms == {"\\iffalse"}
FiSyms == {"\\fi"}
ENV_SKIP == {"comment", "verbatim", "lstlisting", "minted"}
EnvOrder == <<"comment", "verbatim", "lstlisting", "minted">>

\* The environment a \begin{...} symbol names, lower-cased (the expressions
\* are IGNORECASE and the scanner lower-cases the name), or "" for another symbol.
BeginName(s) ==
    CASE s = "\\begin{comment}" -> "comment"
      [] s = "\\begin{verbatim}" -> "verbatim"
      [] s = "\\begin{Verbatim}" -> "verbatim"
      [] s = "\\begin{lstlisting}" -> "lstlisting"
      [] s = "\\begin{minted}" -> "minted"
      [] OTHER -> ""
EndName(s) ==
    CASE s = "\\end{comment}" -> "comment"
      [] s = "\\end{verbatim}" -> "verbatim"
      [] s = "\\end{Verbatim}" -> "verbatim"
      [] s = "\\end{lstlisting}" -> "lstlisting"
      [] s = "\\end{minted}" -> "minted"
      [] OTHER -> ""

HasBackslash(s) ==
    \/ s \in CiteCmds \cup IncludeCmds \cup IffalseSyms \cup FiSyms
    \/ BeginName(s) # ""
    \/ EndName(s) # ""
    \/ s \in {"\\", "\\%", "\\citeyear"}

\* Number of characters before symbol i of text t.
RECURSIVE CharOffset(_, _)
CharOffset(t, i) == IF i <= 1 THEN 0 ELSE CharOffset(t, i - 1) + Len(t[i - 1])

\* str.strip()
Strip(t) ==
    LET ns == {i \in 1..Len(t) : ~IsSpace(t[i])}
    IN IF ns = {} THEN <<>> ELSE SubSeq(t, MinOf(ns), MaxOf(ns))

\* First index >= i of t that holds no whitespace (Len(t) + 1 if none).
RECURSIVE SkipSpace(_, _)
SkipSpace(t, i) ==
    IF i <= Len(t) /\ IsSpace(t[i]) THEN SkipSpace(t, i + 1) ELSE i

\* str.splitlines(): the text between line breaks; a final line break opens no line.
RECURSIVE SplitLines(_)
SplitLines(t) ==
    IF t = <<>> THEN <<>>
    ELSE LET n == FindFrom(t, 1, {"\n"})
         IN IF n = 0 THEN <<t>>
            ELSE <<SubSeq(t, 1, n - 1)>> \o SplitLines(SubSeq(t, n + 1, Len(t)))

\* "\n".join(lines)
RECURSIVE JoinLines(_)
JoinLines(ls) ==
    IF ls = <<>> THEN <<>>
    ELSE IF Len(ls) = 1 THEN ls[1]
    ELSE ls[1] \o <<"\n">> \o JoinLines(Tail(ls))

(***************************************************************************)
(* _CITE_PATTERN: a citation command, an optional star, up to two          *)
(* bracketed arguments, and the braced key list.                           *)
(***************************************************************************)
\* (?:\s*\[[^\]]*\]){0,2} from index i: the index after the arguments taken.
RECURSIVE SkipOptArgs(_, _, _)
SkipOptArgs(t, i, n) ==
    LET j == SkipSpace(t, i)
    IN IF n > 0 /\ j <= Len(t) /\ t[j] = "["
       THEN LET k == FindFrom(t, j + 1, {"]"})
            IN IF k = 0 THEN i ELSE SkipOptArgs(t, k + 1, n - 1)
       ELSE i

\* The match of _CITE_PATTERN starting at symbol i: gs is the index of the
\* first symbol of group 1 and ge the index of the closing brace.
CiteMatchAt(t, i) ==
    LET a == IF i + 1 <= Len(t) /\ t[i + 1] = "*" THEN i + 2 ELSE i + 1
        j == SkipSpace(t, SkipOptArgs(t, a, 2))
        k == IF j <= Len(t) /\ t[j] = "{" THEN FindFrom(t, j + 1, {"}"}) ELSE 0
    IN [ok |-> t[i] \in CiteCmds /\ k # 0, start |-> i, gs |-> j + 1, ge |-> k]

\* _CITE_PATTERN.finditer(t) from index i
RECURSIVE CiteMatchesFrom(_, _)
CiteMatchesFrom(t, i) ==
    IF i > Len(t) THEN <<>>
    ELSE IF t[i] \notin CiteCmds THEN CiteMatchesFrom(t, i + 1)
    ELSE LET m == CiteMatchAt(t, i)
         IN IF m.ok THEN <<m>> \o CiteMatchesFrom(t, m.ge + 1)
            ELSE CiteMatchesFrom(t, i + 1)

CiteMatches(t) == CiteMatchesFrom(t, 1)

(***************************************************************************)
(* _INCLUDE_RE and _resolve_included_path.                                 *)
(***************************************************************************)
\* _INCLUDE_RE.finditer(raw): the position and group 1 of every match, in
\* raw order.
RECURSIVE IncludeMatchesFrom(_, _)
IncludeMatchesFrom(t, i) ==
    IF i > Len(t) THEN <<>>
    ELSE IF t[i] \notin IncludeCmds THEN IncludeMatchesFrom(t, i + 1)
    ELSE LET j == SkipSpace(t, i + 1)
             k == IF j <= Len(t) /\ t[j] = "{" THEN FindFrom(t, j + 1, {"}"}) ELSE 0
         IN IF k > j + 1
            THEN <<[pos |-> i, arg |-> SubSeq(t, j + 1, k - 1)]>>
                 \o IncludeMatchesFrom(t, k + 1)
            ELSE IncludeMatchesFrom(t, i + 1)

IncludeMatches(raw) == IncludeMatchesFrom(raw, 1)

\* The canonical name of the file an include argument names: a default
\* suffix is added when there is none, and resolve() removes "./".  All
\* files of a tree are in one directory.  "?" is a path that names no file.
RECURSIVE DropDot(_)
DropDot(arg) ==
    IF arg # <<>> /\ Head(arg) = "./" THEN DropDot(Tail(arg)) ELSE arg

ResolveIncludedPath(base, arg) ==
    LET p == DropDot(arg)
    IN IF Len(p) = 1 /\ p[1] \in {"main", "sub", "ghost"} THEN p[1]
       ELSE IF Len(p) = 2 /\ p[1] \in {"main", "sub", "ghost"} /\ p[2] = ".tex" THEN p[1]
       ELSE "?"

\* Path.exists()
Exists(p) == p \in DOMAIN tree

(***************************************************************************)
(* The key list of one citation command.                                   *)
(***************************************************************************)
\* _KEY_ITEM_RE.match(keys_str, pos): \s*([^,]+?)\s*(?:,|$).  pos, start and
\* end are 0-based offsets as in the source; group is group 1.  The greedy
\* \s* gives back one blank when only a comma or the end follows the blanks,
\* and the lazy group then holds that blank; with no blank to give back there
\* is no match.
KeyItemMatch(keys_str, pos) ==
    LET n == Len(keys_str)
        g == SkipSpace(keys_str, pos + 1) - 1
        c == FindFrom(keys_str, g + 1, {","})
        stop == IF c = 0 THEN n ELSE c - 1
        end == IF c = 0 THEN n ELSE c
    IN IF g < n /\ keys_str[g + 1] # ","
       THEN [ok |-> TRUE, start |-> g,
             group |-> Strip(SubSeq(keys_str, g + 1, stop)), end |-> end]
       ELSE IF g > pos
       THEN [ok |-> TRUE, start |-> g - 1,
             group |-> <<keys_str[g]>>, end |-> IF g < n THEN g + 1 ELSE n]
       ELSE [ok |-> FALSE, start |-> 0, group |-> <<>>, end |-> 0]

\* The loop over the items of a key list (tex_scanner.py 194-217): the keys
\* reported, each with km.start(1).
RECURSIVE KeyItemsFrom(_, _)
KeyItemsFrom(keys_str, pos) ==
    IF pos > Len(keys_str) THEN <<>>
    ELSE LET km == KeyItemMatch(keys_str, pos)
             key == Strip(km.group)
             nxt == IF km.end = pos THEN pos + 1 ELSE km.end
         IN IF ~km.ok THEN <<>>
            ELSE (IF key # <<>> THEN <<[key |-> key, start |-> km.start]>> ELSE <<>>)
                 \o KeyItemsFrom(keys_str, nxt)

KeyItems(keys_str) == KeyItemsFrom(keys_str, 0)

\* keys_str.split(","): the pieces between commas.
RECURSIVE SplitComma(_)
SplitComma(t) ==
    LET c == FindFrom(t, 1, {","})
    IN IF c = 0 THEN <<t>>
       ELSE <<SubSeq(t, 1, c - 1)>> \o SplitComma(SubSeq(t, c + 1, Len(t)))

\* [k.strip() for k in keys_str.split(",") if k.strip()]
RECURSIVE StripNonEmpty(_)
StripNonEmpty(ps) ==
    IF ps = <<>> THEN <<>>
    ELSE (IF Strip(Head(ps)) # <<>> THEN <<Strip(Head(ps))>> ELSE <<>>)
         \o StripNonEmpty(Tail(ps))

SplitKeys(keys_str) == StripNonEmpty(SplitComma(keys_str))

(***************************************************************************)
(* The scanner's line loop (tex_scanner.py 148-217).                       *)
(***************************************************************************)
\* \b after symbol i of a line
BoundaryAfter(line, i) == i = Len(line) \/ ~IsWordStart(line[i + 1])

\* iff_re.search(line), fi_re.search(line)
HasIffalse(line) ==
    \E i \in 1..Len(line) : line[i] \in IffalseSyms /\ BoundaryAfter(line, i)
HasFi(line) ==
    \E i \in 1..Len(line) : line[i] \in FiSyms /\ BoundaryAfter(line, i)

\* begin_env_re.search(line), end_env_re.search(line): the index of the first
\* marker of the line, or 0.
FirstBegin(line) ==
    LET c == {i \in 1..Len(line) : BeginName(line[i]) \in ENV_SKIP}
    IN IF c = {} THEN 0 ELSE MinOf(c)
FirstEnd(line) ==
    LET c == {i \in 1..Len(line) : EndName(line[i]) \in ENV_SKIP}
    IN IF c = {} THEN 0 ELSE MinOf(c)

\* first_unescaped_percent(s) as a symbol index: the first "%" that no
\* backslash precedes, or Len(s) + 1.
FirstUnescapedPercent(s) ==
    LET c == {i \in 1..Len(s) : s[i] = "%" /\ (i = 1 \/ s[i - 1] # "\\")}
    IN IF c = {} THEN Len(s) + 1 ELSE MinOf(c)

\* AbsCol without the step from a 0-based offset to a 1-based column.
AbsColZeroBased(group_start, key_local_start) == group_start + key_local_start

\* abs_col = group_start + key_local_start + 1
AbsCol(group_start, key_local_start) == group_start + key_local_start + 1

\* len() of a text: the number of its characters
CharLen(t) == CharOffset(t, Len(t) + 1)

\* The longest run of whole symbols at the start of t that has at most n
\* characters.
RECURSIVE WholeSymbols(_, _)
WholeSymbols(t, n) ==
    IF t = <<>> \/ Len(Head(t)) > n THEN <<>>
    ELSE <<Head(t)>> \o WholeSymbols(Tail(t), n - Len(Head(t)))

\* The three characters of the marker literal of line 206, which the source
\* file spells U+00E2 U+20AC U+00A6.
EllipsisMarker == "..."

\* tex_scanner.py 204-206: snippet.  A snippet is the whole symbols it
\* holds (text), the number of characters it holds of the symbol its end
\* falls into (part), and the marker put after them (mark).
Snippet(scan_segment) ==
    LET snippet == Strip(scan_segment)
    IN IF CharLen(snippet) > SnippetLimit
       THEN [text |-> WholeSymbols(snippet, SnippetLimit),
             part |-> SnippetLimit - CharLen(WholeSymbols(snippet, SnippetLimit)),
             mark |-> EllipsisMarker]
       ELSE [text |-> snippet, part |-> 0, mark |-> ""]

\* The occurrences of one citation command m of scan_segment.
KeyOccurrences(scan_segment, m) ==
    LET keys_str == SubSeq(scan_segment, m.gs, m.ge - 1)
        group_start == CharOffset(scan_segment, m.gs)
        items == KeyItems(keys_str)
    IN [n \in 1..Len(items) |->
           [key |-> items[n].key,
            column |-> AbsCol(group_start, CharOffset(keys_str, items[n].start + 1)),
            snippet |-> Snippet(scan_segment)]]

RECURSIVE ConcatAll(_)
ConcatAll(ss) == IF ss = <<>> THEN <<>> ELSE Head(ss) \o ConcatAll(Tail(ss))

\* tex_scanner.py 183-217: the keys and columns reported for a line that is
\* outside every block.
LineOccurrences(line) ==
    LET cut == FirstUnescapedPercent(line)
        scan_segment == SubSeq(line, 1, cut - 1)
        ms == CiteMatches(scan_segment)
    IN IF ~\E i \in 1..Len(scan_segment) : HasBackslash(scan_segment[i])
       THEN <<>>
       ELSE ConcatAll([n \in 1..Len(ms) |-> KeyOccurrences(scan_segment, ms[n])])

NoName == ""

\* The line loop with a block that any end marker closes.
LineStepAnyEnd(in_block_env, in_block_name, in_iffalse, line) ==
    LET iff == in_iffalse \/ HasIffalse(line)
        same == [in_block_env |-> in_block_env, in_block_name |-> in_block_name,
                 in_iffalse |-> FALSE, found |-> <<>>]
    IN IF iff
       THEN [same EXCEPT !.in_iffalse = ~HasFi(line)]
       ELSE IF ~in_block_env
       THEN IF FirstBegin(line) # 0
            THEN [same EXCEPT !.in_block_env = TRUE,
                              !.in_block_name = BeginName(line[FirstBegin(line)])]
            ELSE [same EXCEPT !.found = LineOccurrences(line)]
       ELSE IF FirstEnd(line) # 0
            THEN [same EXCEPT !.in_block_env = FALSE, !.in_block_name = NoName]
            ELSE same

\* One iteration of the line loop: the block state after the line and what
\* the line reports.
LineStep(in_block_env, in_block_name, in_iffalse, line) ==
    LET iff == in_iffalse \/ HasIffalse(line)
        same == [in_block_env |-> in_block_env, in_block_name |-> in_block_name,
                 in_iffalse |-> FALSE, found |-> <<>>]
    IN IF iff
       THEN [same EXCEPT !.in_iffalse = ~HasFi(line)]
       ELSE IF ~in_block_env
       THEN IF FirstBegin(line) # 0
            THEN [same EXCEPT !.in_block_env = TRUE,
                              !.in_block_name = BeginName(line[FirstBegin(line)])]
            ELSE [same EXCEPT !.found = LineOccurrences(line)]
       ELSE IF FirstEnd(line) # 0 /\ EndName(line[FirstEnd(line)]) = in_block_name
            THEN [same EXCEPT !.in_block_env = FALSE, !.in_block_name = NoName]
            ELSE same

(***************************************************************************)
(* _preprocess_source_for_numbering (collect_refs.py 147-167).  Each       *)
(* filter is given by the positions of its input that it keeps, so that a  *)
(* symbol of the cleaned text can be traced to its place in the raw text.  *)
(***************************************************************************)
\* The text at the given positions of t, and positions of positions.
Pick(t, kept) == [n \in 1..Len(kept) |-> t[kept[n]]]

\* pat.sub("", text) for one environment: every leftmost span from a begin
\* marker to the nearest end marker after it is removed.
RECURSIVE StripEnvFrom(_, _, _)
StripEnvFrom(text, env, i) ==
    IF i > Len(text) THEN <<>>
    ELSE LET e == {j \in (i + 1)..Len(text) : EndName(text[j]) = env}
         IN IF BeginName(text[i]) = env /\ e # {}
            THEN StripEnvFrom(text, env, MinOf(e) + 1)
            ELSE <<i>> \o StripEnvFrom(text, env, i + 1)

\* _strip_env_blocks(text, envs): the raw positions kept, given those still there
RECURSIVE StripEnvBlocks(_, _, _)
StripEnvBlocks(raw, kept, envs) ==
    IF envs = <<>> THEN kept
    ELSE StripEnvBlocks(raw, Pick(kept, StripEnvFrom(Pick(raw, kept), Head(envs), 1)),
                        Tail(envs))

\* pat.sub("", text) of _strip_iffalse_blocks
RECURSIVE StripIffalseFrom(_, _)
StripIffalseFrom(text, i) ==
    IF i > Len(text) THEN <<>>
    ELSE LET e == {j \in (i + 1)..Len(text) :
                      text[j] \in FiSyms /\ BoundaryAfter(text, j)}
         IN IF text[i] \in IffalseSyms /\ BoundaryAfter(text, i) /\ e # {}
            THEN StripIffalseFrom(text, MinOf(e) + 1)
            ELSE <<i>> \o StripIffalseFrom(text, i + 1)

\* the loop of _strip_iffalse_blocks: until nothing changes
RECURSIVE StripIffalseBlocks(_, _)
StripIffalseBlocks(raw, kept) ==
    LET next == Pick(kept, StripIffalseFrom(Pick(raw, kept), 1))
    IN IF next = kept THEN kept ELSE StripIffalseBlocks(raw, next)

\* re.sub(r"(?<!\\)%.*", "", line) for every line of text.splitlines(),
\* joined by line breaks: of line n, which starts at position from, the part
\* before its first unescaped "%", and the line break after it unless it is
\* the last line.
RECURSIVE StripLineCommentsFrom(_, _, _)
StripLineCommentsFrom(ls, n, from) ==
    IF n > Len(ls) THEN <<>>
    ELSE LET cut == FirstUnescapedPercent(ls[n])
             brk == from + Len(ls[n])
         IN [i \in 1..(cut - 1) |-> from + i - 1]
            \o (IF n < Len(ls) THEN <<brk>> ELSE <<>>)
            \o StripLineCommentsFrom(ls, n + 1, brk + 1)

StripLineComments(text) == StripLineCommentsFrom(SplitLines(text), 1, 1)

\* The positions of raw that _preprocess_source_for_numbering keeps.
PreprocessKept(raw) ==
    LET all == [i \in 1..Len(raw) |-> i]
        k1 == StripEnvBlocks(raw, all, EnvOrder)
        k2 == StripIffalseBlocks(raw, k1)
    IN Pick(k2, StripLineComments(Pick(raw, k2)))

PreprocessSourceForNumbering(raw) == Pick(raw, PreprocessKept(raw))

\* The citation commands of the cleaned text, in order (collect_refs.py
\* 206-209): the raw position of each command and its keys.
CleanedCites(raw) ==
    LET kept == PreprocessKept(raw)
        cleaned == Pick(raw, kept)
        ms == CiteMatches(cleaned)
    IN [n \in 1..Len(ms) |->
           [pos |-> kept[ms[n].start],
            keys |-> SplitKeys(SubSeq(cleaned, ms[n].gs, ms[n].ge - 1))]]

\* AssignNumber without the test "key not in numbers".
AssignNumberAlways(st, key) ==
    [numbers |-> IF key \in DOMAIN st.numbers
                 THEN [st.numbers EXCEPT ![key] = st.counter + 1]
                 ELSE st.numbers @@ (key :> st.counter + 1),
     counter |-> st.counter + 1]

\* if key not in numbers: counter += 1; numbers[key] = counter
AssignNumber(st, key) ==
    IF key \in DOMAIN st.numbers THEN st
    ELSE [numbers |-> st.numbers @@ (key :> st.counter + 1),
          counter |-> st.counter + 1]

\* for key in keys: ...
RECURSIVE AssignNumbers(_, _)
AssignNumbers(st, keys) ==
    IF keys = <<>> THEN st
    ELSE AssignNumbers(AssignNumber(st, Head(keys)), Tail(keys))

(***************************************************************************)
(* The two traversals.  A frame of a call stack is one activation of       *)
(* scan_file: its file, the inclusion matches still to follow, and the     *)
(* position of its scanning loop.                                          *)
(***************************************************************************)
Top(stk) == stk[Len(stk)]
Pop(stk) == SubSeq(stk, 1, Len(stk) - 1)
SetTop(stk, f) == [stk EXCEPT ![Len(stk)] = f]

\* AlreadyVisited without the visited set.
NeverVisited(visited, p) == FALSE

\* if tex_path in visited: return
AlreadyVisited(visited, p) == p \in visited

\* ScanIncludes looking for inclusions in the cleaned text instead of the raw text.
ScanIncludesCleaned(raw) == IncludeMatches(PreprocessSourceForNumbering(raw))

\* for m in _INCLUDE_RE.finditer(raw), in the scanner and in the numbering pass
ScanIncludes(raw) == IncludeMatches(raw)
NumIncludes(raw) == IncludeMatches(raw)

ScanFrame(p) ==
    [file |-> p, incs |-> ScanIncludes(tree[p]), line |-> 1,
     in_block_env |-> FALSE, in_block_name |-> NoName, in_iffalse |-> FALSE]

NumFrame(p) ==
    [file |-> p, incs |-> NumIncludes(tree[p]), cites |-> CleanedCites(tree[p])]

\* occurrences.setdefault(key, []).append({...}) for the keys found on a line
RECURSIVE AddOccurrences(_, _, _, _)
AddOccurrences(occ, file, idx, found) ==
    IF found = <<>> THEN occ
    ELSE LET o == [file |-> file, line |-> idx, column |-> Head(found).column,
                   snippet |-> Head(found).snippet]
             k == Head(found).key
             occ1 == IF k \in DOMAIN occ THEN [occ EXCEPT ![k] = Append(@, o)]
                     ELSE occ @@ (k :> <<o>>)
         IN AddOccurrences(occ1, file, idx, Tail(found))

\* scan_file(main_tex_path) of scan_tex_project_citations
ScanStart ==
    /\ phase = "scan_call"
    /\ phase' = "scan"
    /\ scan_visited' = scan_visited \cup {"main"}
    /\ scan_reads' = [scan_reads EXCEPT !["main"] = @ + 1]
    /\ scan_stack' = <<ScanFrame("main")>>
    /\ UNCHANGED <<tree, occurrences, numVars, buildVars, resolveVars, bibVars>>

ScanIncluding ==
    /\ phase = "scan"
    /\ scan_stack # <<>>
    /\ Top(scan_stack).incs # <<>>

ScanInc == Strip(Head(Top(scan_stack).incs).arg)
ScanIncPath == ResolveIncludedPath(Top(scan_stack).file, ScanInc)
ScanAfterInclude == SetTop(scan_stack, [Top(scan_stack) EXCEPT !.incs = Tail(@)])

\* an inclusion with an empty argument or a target that does not exist
ScanIncludeSkip ==
    /\ ScanIncluding
    /\ ScanInc = <<>> \/ ~Exists(ScanIncPath)
    /\ scan_stack' = ScanAfterInclude
    /\ UNCHANGED <<tree, phase, scan_visited, occurrences, scan_reads, numVars, buildVars, resolveVars, bibVars>>

\* scan_file(inc_path) returns at once: the file was visited
ScanIncludeVisited ==
    /\ ScanIncluding
    /\ ScanInc # <<>> /\ Exists(ScanIncPath)
    /\ AlreadyVisited(scan_visited, ScanIncPath)
    /\ scan_stack' = ScanAfterInclude
    /\ UNCHANGED <<tree, phase, scan_visited, occurrences, scan_reads, numVars, buildVars, resolveVars, bibVars>>

\* scan_file(inc_path) marks the file, reads it and starts on it
ScanIncludeEnter ==
    /\ ScanIncluding
    /\ ScanInc # <<>> /\ Exists(ScanIncPath)
    /\ ~AlreadyVisited(scan_visited, ScanIncPath)
    /\ scan_visited' = scan_visited \cup {ScanIncPath}
    /\ scan_reads' = [scan_reads EXCEPT ![ScanIncPath] = @ + 1]
    /\ scan_stack' = Append(ScanAfterInclude, ScanFrame(ScanIncPath))
    /\ UNCHANGED <<tree, phase, occurrences, numVars, buildVars, resolveVars, bibVars>>

\* one iteration of the line loop
ScanLine ==
    /\ phase = "scan"
    /\ scan_stack # <<>>
    /\ LET f == Top(scan_stack)
           lines == SplitLines(tree[f.file])
       IN /\ f.incs = <<>>
          /\ f.line <= Len(lines)
          /\ LET r == LineStep(f.in_block_env, f.in_block_name, f.in_iffalse,
                               lines[f.line])
             IN /\ scan_stack' = SetTop(scan_stack,
                        [f EXCEPT !.line = @ + 1,
                                  !.in_block_env = r.in_block_env,
                                  !.in_block_name = r.in_block_name,
                                  !.in_iffalse = r.in_iffalse])
                /\ occurrences' = AddOccurrences(occurrences, f.file, f.line, r.found)
    /\ UNCHANGED <<tree, phase, scan_visited, scan_reads, numVars, buildVars, resolveVars, bibVars>>

\* scan_file returns and the block state of its line loop stays behind for
\* the caller: the state of a scanner whose block variables are shared by
\* all files and set before the inclusions are followed
ScanReturnLeaks ==
    /\ phase = "scan"
    /\ scan_stack # <<>>
    /\ LET f == Top(scan_stack)
       IN /\ f.incs = <<>>
          /\ f.line > Len(SplitLines(tree[f.file]))
          /\ scan_stack' =
                IF Len(scan_stack) = 1 THEN <<>>
                ELSE SetTop(Pop(scan_stack),
                            [Top(Pop(scan_stack)) EXCEPT
                                !.in_block_env = f.in_block_env,
                                !.in_block_name = f.in_block_name,
                                !.in_iffalse = f.in_iffalse])
    /\ phase' = IF Len(scan_stack) = 1 THEN "num_call" ELSE "scan"
    /\ UNCHANGED <<tree, scan_visited, occurrences, scan_reads, numVars, buildVars, resolveVars, bibVars>>

\* the end of the line loop: scan_file returns
ScanReturn ==
    /\ phase = "scan"
    /\ scan_stack # <<>>
    /\ LET f == Top(scan_stack)
       IN /\ f.incs = <<>>
          /\ f.line > Len(SplitLines(tree[f.file]))
    /\ scan_stack' = Pop(scan_stack)
    /\ phase' = IF Len(scan_stack) = 1 THEN "num_call" ELSE "scan"
    /\ UNCHANGED <<tree, scan_visited, occurrences, scan_reads, numVars, buildVars, resolveVars, bibVars>>

\* scan_file(main_tex) of compute_citation_numbers
NumStart ==
    /\ phase = "num_call"
    /\ phase' = "num"
    /\ num_visited' = num_visited \cup {"main"}
    /\ num_reads' = [num_reads EXCEPT !["main"] = @ + 1]
    /\ num_stack' = <<NumFrame("main")>>
    /\ UNCHANGED <<tree, numbers, counter, scanVars, buildVars, resolveVars, bibVars>>

NumIncluding ==
    /\ phase = "num"
    /\ num_stack # <<>>
    /\ Top(num_stack).incs # <<>>

NumInc == Strip(Head(Top(num_stack).incs).arg)
NumIncPath == ResolveIncludedPath(Top(num_stack).file, NumInc)
NumAfterInclude == SetTop(num_stack, [Top(num_stack) EXCEPT !.incs = Tail(@)])

NumIncludeSkip ==
    /\ NumIncluding
    /\ NumInc = <<>> \/ ~Exists(NumIncPath)
    /\ num_stack' = NumAfterInclude
    /\ UNCHANGED <<tree, phase, num_visited, numbers, counter, num_reads, scanVars, buildVars, resolveVars, bibVars>>

NumIncludeVisited ==
    /\ NumIncluding
    /\ NumInc # <<>> /\ Exists(NumIncPath)
    /\ AlreadyVisited(num_visited, NumIncPath)
    /\ num_stack' = NumAfterInclude
    /\ UNCHANGED <<tree, phase, num_visited, numbers, counter, num_reads, scanVars, buildVars, resolveVars, bibVars>>

NumIncludeEnter ==
    /\ NumIncluding
    /\ NumInc # <<>> /\ Exists(NumIncPath)
    /\ ~AlreadyVisited(num_visited, NumIncPath)
    /\ num_visited' = num_visited \cup {NumIncPath}
    /\ num_reads' = [num_reads EXCEPT ![NumIncPath] = @ + 1]
    /\ num_stack' = Append(NumAfterInclude, NumFrame(NumIncPath))
    /\ UNCHANGED <<tree, phase, numbers, counter, scanVars, buildVars, resolveVars, bibVars>>

\* one citation command of the cleaned text: its keys are numbered left to right
NumCite ==
    /\ phase = "num"
    /\ num_stack # <<>>
    /\ LET f == Top(num_stack)
           st == AssignNumbers([numbers |-> numbers, counter |-> counter],
                               Head(f.cites).keys)
       IN /\ f.incs = <<>>
          /\ f.cites # <<>>
          /\ numbers' = st.numbers
          /\ counter' = st.counter
          /\ num_stack' = SetTop(num_stack, [f EXCEPT !.cites = Tail(@)])
    /\ UNCHANGED <<tree, phase, num_visited, num_reads, scanVars, buildVars, resolveVars, bibVars>>

NumReturn ==
    /\ phase = "num"
    /\ num_stack # <<>>
    /\ Top(num_stack).incs = <<>>
    /\ Top(num_stack).cites = <<>>
    /\ num_stack' = Pop(num_stack)
    /\ phase' = IF Len(num_stack) = 1 THEN "done" ELSE "num"
    /\ UNCHANGED <<tree, num_visited, numbers, counter, num_reads, scanVars, buildVars, resolveVars, bibVars>>

(***************************************************************************)
(* build_output_data (collect_refs.py 227-325).  A bibliography record is  *)
(* its key, its order_index the place in bib_entries; an occurrence is     *)
(* its file, line and column; the resolver answers by source line.  The    *)
(* fields of a card that are copied from the record are left out.          *)
(***************************************************************************)
None == <<>>
Some(n) == <<n>>
NoLoc == [page |-> None, printed |-> None]

\* 10**9, the rank of a page or printed line that is not known
Sentinel == 1000000000

\* the order of keys as strings
KeyOrder == <<"X", "Y", "Z">>
KeyIndex(k) == CHOOSE i \in 1..Len(KeyOrder) : KeyOrder[i] = k

\* OccsOf with one occurrence in the place of the default.
OccsOrOne(occ, k) ==
    IF k \in DOMAIN occ /\ occ[k] # <<>> THEN occ[k]
    ELSE <<[file |-> "main", line |-> 1, column |-> 1]>>

\* occurrences.get(k, [])
OccsOf(occ, k) == IF k \in DOMAIN occ THEN occ[k] ELSE <<>>

\* cit_numbers.get(k) if cit_numbers else None
OrderNumOf(nums, k) == IF k \in DOMAIN nums THEN Some(nums[k]) ELSE None

\* tuples of integers of one length, compared as Python compares them
RECURSIVE TupleLess(_, _)
TupleLess(a, b) ==
    IF a = <<>> THEN FALSE
    ELSE IF Head(a) # Head(b) THEN Head(a) < Head(b)
    ELSE TupleLess(Tail(a), Tail(b))

\* pdf_resolver.resolve(abs_file, ln, column=col)
Resolve(resolver, o) ==
    IF resolver.present THEN resolver.resolve[o.line]
    ELSE NoLoc

\* occ_order of one occurrence
OccOrder(resolver, o) ==
    LET loc == Resolve(resolver, o)
    IN <<IF loc.page # None THEN loc.page[1] ELSE Sentinel,
         IF loc.printed # None THEN loc.printed[1] ELSE Sentinel,
         o.line>>

\* BestOrder that takes the order of the first occurrence.
FirstOrder(resolver, occs) == OccOrder(resolver, occs[1])

\* best_order after the loop over occs; occs is not empty, so the default of
\* min() is out of reach
BestOrder(resolver, occs) ==
    IF resolver.present
    THEN LET S == {OccOrder(resolver, occs[i]) : i \in 1..Len(occs)}
         IN CHOOSE b \in S : \A c \in S : ~TupleLess(c, b)
    ELSE <<Sentinel, Sentinel, MinOf({occs[i].line : i \in 1..Len(occs)})>>

\* occ_list
OccList(resolver, occs) ==
    [i \in 1..Len(occs) |->
        [line |-> occs[i].line,
         pdfPage |-> Resolve(resolver, occs[i]).page,
         pdfLineno |-> Resolve(resolver, occs[i]).printed]]

\* the card appended for record number i (order_index i - 1)
CardOf(i, occs) ==
    [key |-> bib_entries[i],
     occurrences |-> OccList(pdf_resolver, occs),
     firstOccurrence |-> BestOrder(pdf_resolver, occs),
     bibIndex |-> i - 1,
     orderNum |-> OrderNumOf(cit_numbers, bib_entries[i])]

\* (firstOccurrence, bibIndex, key) of card a before that of card b
SortKeyLess(a, b) ==
    TupleLess(a.firstOccurrence \o <<a.bibIndex, KeyIndex(a.key)>>,
              b.firstOccurrence \o <<b.bibIndex, KeyIndex(b.key)>>)

\* sorted(range(len(cards)), key=...): a stable sort, as positions 1..len
RECURSIVE InsertSorted(_, _, _)
InsertSorted(cs, s, i) ==
    IF s = <<>> THEN <<i>>
    ELSE IF SortKeyLess(cs[i], cs[Head(s)]) THEN <<i>> \o s
    ELSE <<Head(s)>> \o InsertSorted(cs, Tail(s), i)

RECURSIVE SortedIdxUpTo(_, _)
SortedIdxUpTo(cs, n) ==
    IF n = 0 THEN <<>> ELSE InsertSorted(cs, SortedIdxUpTo(cs, n - 1), n)

SortedIdx(cs) == SortedIdxUpTo(cs, Len(cs))

\* next_num as it stands, whether used or not
NextUnskipped(n, u) == n

\* while next_num in used: next_num += 1
RECURSIVE NextUnused(_, _)
NextUnused(n, u) == IF n \in u THEN NextUnused(n + 1, u) ELSE n

\* one record of bib_entries without occurrences: continue
BuildEntrySkip ==
    /\ build_pc = "cards"
    /\ be_idx <= Len(bib_entries)
    /\ OccsOf(cit_occ, bib_entries[be_idx]) = <<>>
    /\ be_idx' = be_idx + 1
    /\ UNCHANGED <<bib_entries, cit_occ, pdf_resolver, cit_numbers, build_pc, cards,
                   cards_sorted_idx, used, next_num, fill_pos, returned>>
    /\ UNCHANGED <<tree, phase, scanVars, numVars, resolveVars, bibVars>>

\* one record of bib_entries with occurrences: its card is appended
BuildEntryCard ==
    /\ build_pc = "cards"
    /\ be_idx <= Len(bib_entries)
    /\ OccsOf(cit_occ, bib_entries[be_idx]) # <<>>
    /\ cards' = Append(cards, CardOf(be_idx, OccsOf(cit_occ, bib_entries[be_idx])))
    /\ be_idx' = be_idx + 1
    /\ UNCHANGED <<bib_entries, cit_occ, pdf_resolver, cit_numbers, build_pc,
                   cards_sorted_idx, used, next_num, fill_pos, returned>>
    /\ UNCHANGED <<tree, phase, scanVars, numVars, resolveVars, bibVars>>

\* after the loop: cards_sorted_idx, used and next_num are set
BuildSort ==
    /\ build_pc = "cards"
    /\ be_idx > Len(bib_entries)
    /\ cards_sorted_idx' = SortedIdx(cards)
    /\ used' = {cards[i].orderNum[1] : i \in {j \in 1..Len(cards) : cards[j].orderNum # None}}
    /\ next_num' = 1
    /\ fill_pos' = 1
    /\ build_pc' = "fill"
    /\ UNCHANGED <<bib_entries, cit_occ, pdf_resolver, cit_numbers, be_idx, cards, returned>>
    /\ UNCHANGED <<tree, phase, scanVars, numVars, resolveVars, bibVars>>

\* one card of the fill loop that has a number
BuildFillKeep ==
    /\ build_pc = "fill"
    /\ fill_pos <= Len(cards_sorted_idx)
    /\ cards[cards_sorted_idx[fill_pos]].orderNum # None
    /\ fill_pos' = fill_pos + 1
    /\ UNCHANGED <<bib_entries, cit_occ, pdf_resolver, cit_numbers, build_pc, be_idx,
                   cards, cards_sorted_idx, used, next_num, returned>>
    /\ UNCHANGED <<tree, phase, scanVars, numVars, resolveVars, bibVars>>

\* one card of the fill loop that has no number: it gets the next unused one
BuildFillAssign ==
    /\ build_pc = "fill"
    /\ fill_pos <= Len(cards_sorted_idx)
    /\ cards[cards_sorted_idx[fill_pos]].orderNum = None
    /\ LET n == NextUnused(next_num, used)
       IN /\ cards' = [cards EXCEPT ![cards_sorted_idx[fill_pos]].orderNum = Some(n)]
          /\ used' = used \cup {n}
          /\ next_num' = n + 1
    /\ fill_pos' = fill_pos + 1
    /\ UNCHANGED <<bib_entries, cit_occ, pdf_resolver, cit_numbers, build_pc, be_idx,
                   cards_sorted_idx, returned>>
    /\ UNCHANGED <<tree, phase, scanVars, numVars, resolveVars, bibVars>>

\* return cards
BuildReturn ==
    /\ build_pc = "fill"
    /\ fill_pos > Len(cards_sorted_idx)
    /\ returned' = cards
    /\ build_pc' = "returned"
    /\ UNCHANGED <<bib_entries, cit_occ, pdf_resolver, cit_numbers, be_idx, cards,
                   cards_sorted_idx, used, next_num, fill_pos>>
    /\ UNCHANGED <<tree, phase, scanVars, numVars, resolveVars, bibVars>>

(***************************************************************************)
(* PdfLinenoResolver (pdf_lineno.py).  Lengths are whole points; the       *)
(* tolerances, which the code scales by 0.9, are hundredths of a point.    *)
(* A raise is a record whose exc names the exception class (exc = "" is a  *)
(* normal return).  The score that orders the clusters of numeric tokens   *)
(* (lines 76-102 and 132-139) is not computed: any cluster of a scanned    *)
(* page may be the best one.                                               *)
(***************************************************************************)
NoExc == ""

\* An except clause that catches nothing.
CatchesNothing(exc) == FALSE

\* "except Exception" catches the exception
CatchesException(exc) ==
    exc \in {"FileNotFoundError", "RuntimeError", "ValueError", "IndexError"}

\* the loop of synctex_view over the lines of the tool's output
RECURSIVE ParseSynctex(_, _, _, _)
ParseSynctex(lines, page, x, y) ==
    IF lines = <<>>
    THEN [exc |-> "RuntimeError", page |-> 0, y |-> 0]
    ELSE LET l == Head(lines)
             page1 == IF l.tag = "Page:" THEN l.val ELSE page
             x1 == IF l.tag = "x:" THEN l.val ELSE x
             y1 == IF l.tag = "y:" THEN l.val ELSE y
         IN IF l.tag \in {"Page:", "x:", "y:"} /\ l.val = None
            THEN [exc |-> "ValueError", page |-> 0, y |-> 0]
            ELSE IF page1 # None /\ x1 # None /\ y1 # None
            THEN [exc |-> NoExc, page |-> page1[1], y |-> y1[1]]
            ELSE ParseSynctex(Tail(lines), page1, x1, y1)

\* synctex_view
SynctexView(tool) ==
    IF tool.status = "missing" THEN [exc |-> "FileNotFoundError", page |-> 0, y |-> 0]
    ELSE IF tool.status = "failed" THEN [exc |-> "RuntimeError", page |-> 0, y |-> 0]
    ELSE ParseSynctex(tool.stdout, None, None, None)

\* re.fullmatch(r"\d{1,5}", s)
Digits == <<"0", "1", "2", "3", "4", "5", "6", "7", "8", "9">>
IsNumberToken(s) ==
    /\ Len(s) >= 1
    /\ Len(s) <= 5
    /\ \A i \in 1..Len(s) : \E d \in 1..Len(Digits) : Digits[d] = s[i]

\* int(best_txt)
RECURSIVE IntOf(_)
IntOf(s) ==
    IF s = <<>> THEN 0
    ELSE 10 * IntOf(SubSeq(s, 1, Len(s) - 1))
         + (CHOOSE d \in 0..9 : Digits[d + 1] = s[Len(s)])

\* the numeric tokens of a page, stripped
RECURSIVE NumericSpans(_)
NumericSpans(words) ==
    IF words = <<>> THEN <<>>
    ELSE (IF IsNumberToken(Strip(Head(words).txt))
          THEN <<[Head(words) EXCEPT !.txt = Strip(@)]>> ELSE <<>>)
         \o NumericSpans(Tail(words))

\* sorted(spans, key=lambda t: 0.5*(t[0]+t[2])), a stable sort
RECURSIVE InsertByX(_, _)
InsertByX(sorted, w) ==
    IF sorted = <<>> THEN <<w>>
    ELSE IF w.x0 + w.x1 < Head(sorted).x0 + Head(sorted).x1 THEN <<w>> \o sorted
    ELSE <<Head(sorted)>> \o InsertByX(Tail(sorted), w)

RECURSIVE SortByX(_)
SortByX(spans) ==
    IF spans = <<>> THEN <<>>
    ELSE InsertByX(SortByX(SubSeq(spans, 1, Len(spans) - 1)), spans[Len(spans)])

\* eps of _cluster_by_x, as auto_detect_margin_band passes it
ClusterEps == 12

\* the loop of _cluster_by_x: the clusters closed so far and the open one
RECURSIVE ClusterFrom(_, _, _)
ClusterFrom(pts, clusters, cur) ==
    IF pts = <<>> THEN (IF cur # <<>> THEN Append(clusters, cur) ELSE clusters)
    ELSE LET w == Head(pts)
             last == cur[Len(cur)]
             d == (w.x0 + w.x1) - (last.x0 + last.x1)
         IN IF cur = <<>> \/ (d <= 2 * ClusterEps /\ 0 - d <= 2 * ClusterEps)
            THEN ClusterFrom(Tail(pts), clusters, Append(cur, w))
            ELSE ClusterFrom(Tail(pts), Append(clusters, cur), <<w>>)

ClusterByX(spans) == ClusterFrom(SortByX(spans), <<>>, <<>>)

\* sorted(heights)
RECURSIVE InsertInt(_, _)
InsertInt(sorted, n) ==
    IF sorted = <<>> THEN <<n>>
    ELSE IF n < Head(sorted) THEN <<n>> \o sorted
    ELSE <<Head(sorted)>> \o InsertInt(Tail(sorted), n)

RECURSIVE SortInts(_)
SortInts(ns) ==
    IF ns = <<>> THEN <<>> ELSE InsertInt(SortInts(Tail(ns)), Head(ns))

\* sum(xs)
RECURSIVE SumSeq(_)
SumSeq(ns) == IF ns = <<>> THEN 0 ELSE Head(ns) + SumSeq(Tail(ns))

\* doc[0].rect.width
PageWidth == 600

\* the bound of range(1, min(6, doc.page_count+1))
ScanLimit == 6

\* pages_to_scan
PagesToScan(doc, page_hint) ==
    LET first == [i \in 1..(MinOf({ScanLimit, Len(doc) + 1}) - 1) |-> i]
    IN IF page_hint # 0 /\ 1 <= page_hint /\ page_hint <= Len(doc)
          /\ page_hint \notin Range(first)
       THEN <<page_hint>> \o first
       ELSE first

\* heights: the heights of the numeric tokens of the scanned pages
RECURSIVE HeightsOf(_, _)
HeightsOf(doc, pages) ==
    IF pages = <<>> THEN <<>>
    ELSE LET sp == NumericSpans(doc[Head(pages)])
         IN [i \in 1..Len(sp) |-> sp[i].y1 - sp[i].y0] \o HeightsOf(doc, Tail(pages))

\* 6.0 of y_tol = max(6.0, 0.9*med_h), in hundredths
YTolMin == 600

\* pad_inside of auto_detect_margin_band and pad of find_nearest_margin_lineno
Pad == 2

\* the band of lines 145-161 for the best cluster
BandOf(cluster, heights) ==
    LET n == Len(cluster)
        xsum == SumSeq([i \in 1..n |-> cluster[i].x0 + cluster[i].x1])
        side == IF xsum < n * PageWidth THEN "left" ELSE "right"
        x_min == MinOf({cluster[i].x0 : i \in 1..n})
        x_max == MaxOf({cluster[i].x1 : i \in 1..n})
        hs == SortInts(heights)
        med_h == hs[(Len(hs) \div 2) + 1]
    IN [side |-> side,
        x_cut |-> IF side = "right" THEN MaxOf({0, x_min - Pad})
                  ELSE MinOf({PageWidth, x_max + Pad}),
        x_min |-> x_min,
        x_max |-> x_max,
        y_tol |-> MaxOf({YTolMin, 90 * med_h}),
        page_width |-> PageWidth]

\* auto_detect_margin_band: the bands it may return; none when it raises
AutoDetectBands(doc, page_hint) ==
    LET pages == PagesToScan(doc, page_hint)
        heights == HeightsOf(doc, pages)
    IN UNION {{BandOf(ClusterByX(NumericSpans(doc[pno]))[c], heights) :
                  c \in 1..Len(ClusterByX(NumericSpans(doc[pno])))} :
              pno \in Range(pages)}

\* the candidates of find_nearest_margin_lineno, in the order of the words
RECURSIVE Candidates(_, _, _)
Candidates(words, target_y, band) ==
    IF words = <<>> THEN <<>>
    ELSE LET w == Head(words)
             s == Strip(w.txt)
             dy == IF w.y1 >= target_y THEN w.y1 - target_y ELSE target_y - w.y1
             keep == /\ IsNumberToken(s)
                     /\ ~(w.x1 < band.x_min - Pad \/ w.x0 > band.x_max + Pad)
                     /\ ~(band.side = "right" /\ w.x0 + w.x1 < band.page_width)
                     /\ ~(band.side = "left" /\ w.x0 + w.x1 > band.page_width)
         IN (IF keep THEN <<[txt |-> s, dy |-> dy]>> ELSE <<>>)
            \o Candidates(Tail(words), target_y, band)

\* tol of find_nearest_margin_lineno with align = "bottom", in hundredths
BottomTol(y_tol) == MaxOf({y_tol, (9 * y_tol) \div 10 + 150})

\* find_nearest_margin_lineno: its "lineno", or the exception it raises
FindNearestMarginLineno(doc, page_num_1based, target_y, band) ==
    IF ~(0 <= page_num_1based - 1 /\ page_num_1based - 1 < Len(doc))
    THEN [exc |-> "ValueError", lineno |-> None]
    ELSE LET cs == Candidates(doc[page_num_1based], target_y, band)
             best == CHOOSE i \in 1..Len(cs) :
                        \A j \in 1..Len(cs) :
                            cs[i].dy < cs[j].dy \/ (cs[i].dy = cs[j].dy /\ i <= j)
         IN IF cs # <<>> /\ 100 * cs[best].dy <= BottomTol(band.y_tol)
            THEN [exc |-> NoExc, lineno |-> Some(IntOf(cs[best].txt))]
            ELSE [exc |-> NoExc, lineno |-> None]

\* _ensure_band: the values self._band may have after it, and whether
\* auto_detect_margin_band ran
EnsureBand(band, doc, page_hint) ==
    IF band # None THEN {[exc |-> NoExc, band |-> band, ran |-> 0]}
    ELSE IF AutoDetectBands(doc, page_hint) = {}
    THEN {[exc |-> "ValueError", band |-> None, ran |-> 1]}
    ELSE {[exc |-> NoExc, band |-> Some(b), ran |-> 1] :
             b \in AutoDetectBands(doc, page_hint)}

\* ResolveValue that gives up the page with the line number.
ResolveValueAllOrNothing(page, found) ==
    IF found.exc # NoExc \/ found.lineno = None THEN <<None, None>>
    ELSE <<Some(page), found.lineno>>

\* return (sync.page, lineno)
ResolveValue(page, found) ==
    <<Some(page), IF found.exc = NoExc THEN found.lineno ELSE None>>

\* resolve: what it returns or raises, self._band after it, and the runs of
\* auto_detect_margin_band it made
ResolveOutcomes(band, doc, tool) ==
    LET sync == SynctexView(tool)
    IN IF sync.exc # NoExc
       THEN {[exc |-> IF CatchesException(sync.exc) THEN NoExc ELSE sync.exc,
              value |-> <<None, None>>, band |-> band, ran |-> 0]}
       ELSE {LET found == IF e.band = None
                          THEN [exc |-> NoExc, lineno |-> None]
                          ELSE FindNearestMarginLineno(doc, sync.page, sync.y, e.band[1])
             IN [exc |-> IF e.exc # NoExc /\ ~CatchesException(e.exc) THEN e.exc
                         ELSE IF found.exc # NoExc /\ ~CatchesException(found.exc)
                         THEN found.exc
                         ELSE NoExc,
                 value |-> ResolveValue(sync.page, found),
                 band |-> e.band,
                 ran |-> e.ran] :
             e \in EnsureBand(band, doc, sync.page)}

\* one word of page.get_text("words")
Word(x0, y0, x1, y1, txt) == [x0 |-> x0, y0 |-> y0, x1 |-> x1, y1 |-> y1, txt |-> txt]

\* a page without numbers, and a page with two printed line numbers in the
\* left margin and a year in the text
TextPage == <<Word(100, 100, 130, 110, <<"a", "b">>)>>
NumberedPage ==
    <<Word(20, 100, 30, 110, <<"1">>),
      Word(100, 100, 130, 110, <<"a", "b">>),
      Word(20, 130, 30, 140, <<" ", "2">>),
      Word(400, 130, 430, 142, <<"2", "0", "2", "3">>)>>

\* a page in large print: two printed line numbers 24 points high in the
\* left margin
LargePrintPage ==
    <<Word(20, 107, 32, 131, <<"1">>),
      Word(100, 107, 160, 131, <<"a", "b">>),
      Word(20, 147, 32, 171, <<"2">>)>>

\* the PDF: any pages of the first two kinds, or a few pages of the three
Docs ==
    SeqsUpTo({TextPage, NumberedPage}, MaxPages)
    \cup SeqsUpTo({TextPage, NumberedPage, LargePrintPage}, MaxLargePages)

\* one line of the tool's output: its tag and the number after it, if it
\* is one
OutLine(tag, val) == [tag |-> tag, val |-> val]

\* outputs of the tool: complete, in another order and with more lines,
\* without a page, with text where a number should be, empty
ToolOutputs ==
    {<<OutLine("Page:", Some(1)), OutLine("x:", Some(50)), OutLine("y:", Some(110))>>,
     <<OutLine("Page:", Some(1)), OutLine("x:", Some(50)), OutLine("y:", Some(119))>>,
     <<OutLine("Page:", Some(1)), OutLine("x:", Some(50)), OutLine("y:", Some(300))>>,
     <<OutLine("Page:", Some(6)), OutLine("x:", Some(50)), OutLine("y:", Some(140))>>,
     <<OutLine("Page:", Some(9)), OutLine("x:", Some(50)), OutLine("y:", Some(110))>>,
     <<OutLine("other", None), OutLine("y:", Some(110)), OutLine("x:", Some(50)),
       OutLine("Page:", Some(2)), OutLine("Page:", None)>>,
     <<OutLine("Page:", None), OutLine("x:", Some(50)), OutLine("y:", Some(110))>>,
     <<OutLine("x:", Some(50)), OutLine("y:", Some(110))>>,
     <<>>}

\* runs of the tool: not installed, exit status not zero, or an output
ToolRuns ==
    {[status |-> "missing", stdout |-> <<>>], [status |-> "failed", stdout |-> <<>>]}
    \cup {[status |-> "ok", stdout |-> o] : o \in ToolOutputs}

\* a resolve call whose synctex run gives no page, x and y
ResolveToolFails ==
    /\ calls < MaxCalls
    /\ \E tool \in ToolRuns :
          /\ SynctexView(tool).exc # NoExc
          /\ \E r \in ResolveOutcomes(self_band, pdf_doc, tool) :
                /\ last_tool' = tool
                /\ last_result' = [exc |-> r.exc, value |-> r.value]
                /\ self_band' = r.band
                /\ detect_runs' = detect_runs + r.ran
    /\ calls' = calls + 1
    /\ UNCHANGED <<pdf_doc, tree, phase, scanVars, numVars, buildVars, bibVars>>

\* a resolve call that reaches _ensure_band when no band is cached
ResolveDetects ==
    /\ calls < MaxCalls
    /\ self_band = None
    /\ \E tool \in ToolRuns :
          /\ SynctexView(tool).exc = NoExc
          /\ \E r \in ResolveOutcomes(self_band, pdf_doc, tool) :
                /\ last_tool' = tool
                /\ last_result' = [exc |-> r.exc, value |-> r.value]
                /\ self_band' = r.band
                /\ detect_runs' = detect_runs + r.ran
    /\ calls' = calls + 1
    /\ UNCHANGED <<pdf_doc, tree, phase, scanVars, numVars, buildVars, bibVars>>

\* a resolve call that reaches _ensure_band when a band is cached
ResolveCached ==
    /\ calls < MaxCalls
    /\ self_band # None
    /\ \E tool \in ToolRuns :
          /\ SynctexView(tool).exc = NoExc
          /\ \E r \in ResolveOutcomes(self_band, pdf_doc, tool) :
                /\ last_tool' = tool
                /\ last_result' = [exc |-> r.exc, value |-> r.value]
                /\ self_band' = r.band
                /\ detect_runs' = detect_runs + r.ran
    /\ calls' = calls + 1
    /\ UNCHANGED <<pdf_doc, tree, phase, scanVars, numVars, buildVars, bibVars>>

(***************************************************************************)
(* parse_bibtex and its readers (collect_refs.py 49-123).  A text is a     *)
(* sequence of characters; a position counts from 1, so that the code's    *)
(* index p is position p + 1, and 0 stands for find's -1.                  *)
(***************************************************************************)
\* [A-Za-z]
IsLetter(c) == c \in {"a", "b", "c", "j", "k", "n", "t", "u", "v", "T"}

\* [A-Za-z0-9_\-]
IsNameChar(c) ==
    IsLetter(c) \/ c \in {"_", "-"} \/ \E d \in 1..Len(Digits) : Digits[d] = c

\* str.lower() of one character
LowerChar(c) == IF c = "T" THEN "t" ELSE c
Lower(t) == [n \in 1..Len(t) |-> LowerChar(t[n])]

\* _strip_inline_comments
StripInlineComments(t) == Pick(t, StripLineComments(t))

\* the loop of _read_braced from position j at the given depth
RECURSIVE ReadBracedFrom(_, _, _, _)
ReadBracedFrom(t, i, j, depth) ==
    IF j > Len(t) THEN [exc |-> NoExc, val |-> SubSeq(t, i + 1, Len(t)), end |-> Len(t) + 1]
    ELSE IF t[j] = "{" THEN ReadBracedFrom(t, i, j + 1, depth + 1)
    ELSE IF t[j] = "}"
    THEN IF depth - 1 = 0
         THEN [exc |-> NoExc, val |-> SubSeq(t, i + 1, j - 1), end |-> j + 1]
         ELSE ReadBracedFrom(t, i, j + 1, depth - 1)
    ELSE ReadBracedFrom(t, i, j + 1, depth)

\* _read_braced without its depth counter: the value ends at the first "}"
ReadBracedFlat(t, i) ==
    LET q == FindFrom(t, i, {"}"})
    IN IF q = 0 THEN [exc |-> NoExc, val |-> SubSeq(t, i + 1, Len(t)), end |-> Len(t) + 1]
       ELSE [exc |-> NoExc, val |-> SubSeq(t, i + 1, q - 1), end |-> q + 1]

\* _read_braced
ReadBraced(t, i) ==
    IF t[i] # "{" THEN [exc |-> "AssertionError", val |-> <<>>, end |-> i]
    ELSE ReadBracedFrom(t, i, i, 0)

\* the loop of _read_quoted from position j
RECURSIVE ReadQuotedFrom(_, _, _)
ReadQuotedFrom(t, i, j) ==
    IF j > Len(t) THEN [exc |-> NoExc, val |-> SubSeq(t, i + 1, Len(t)), end |-> j]
    ELSE IF t[j] = "\"" /\ t[j - 1] # "\\"
    THEN [exc |-> NoExc, val |-> SubSeq(t, i + 1, j - 1), end |-> j + 1]
    ELSE ReadQuotedFrom(t, i, j + 1)

\* _read_quoted
ReadQuoted(t, i) ==
    IF t[i] # "\"" THEN [exc |-> "AssertionError", val |-> <<>>, end |-> i]
    ELSE ReadQuotedFrom(t, i, i + 1)

\* _read_value
ReadValue(t, i) ==
    LET p == SkipSpace(t, i)
        stop == FindFrom(t, p, {",", "}"})
        j == IF stop = 0 THEN Len(t) + 1 ELSE stop
    IN IF p > Len(t) THEN [exc |-> NoExc, val |-> <<>>, end |-> p]
       ELSE IF t[p] = "{" THEN ReadBraced(t, p)
       ELSE IF t[p] = "\"" THEN ReadQuoted(t, p)
       ELSE [exc |-> NoExc, val |-> Strip(SubSeq(t, p, j - 1)), end |-> j]

\* re.match(r"@([A-Za-z]+)\s*[\(\{]", text[at:]): the position of the
\* opening delimiter, or 0
HeaderLettersEnd(t, p) == MinOf({q \in p..(Len(t) + 1) : q > Len(t) \/ ~IsLetter(t[q])})
HeaderMatch(t, at) ==
    LET e == HeaderLettersEnd(t, at + 1)
        q == SkipSpace(t, e)
    IN IF e > at + 1 /\ q <= Len(t) /\ t[q] \in {"(", "{"} THEN q ELSE 0

\* i = at + 1 without the step
StayAt(at) == at

\* i = at + 1
AfterAt(at) == at + 1

\* the first position from k that holds neither whitespace nor a comma
RECURSIVE SkipSeparators(_, _)
SkipSeparators(t, k) ==
    IF k <= Len(t) /\ (IsSpace(t[k]) \/ t[k] = ",") THEN SkipSeparators(t, k + 1) ELSE k

\* re.match(r"([A-Za-z][A-Za-z0-9_\-]*)\s*=", fields_str[k:]): where the
\* name ends and where the match ends, or 0
FieldNameEnd(t, k) == MinOf({q \in (k + 1)..(Len(t) + 1) : q > Len(t) \/ ~IsNameChar(t[q])})
FieldMatch(t, k) ==
    LET n == FieldNameEnd(t, k)
        q == SkipSpace(t, n)
    IN IF IsLetter(t[k]) /\ q <= Len(t) /\ t[q] = "="
       THEN [ok |-> TRUE, name_end |-> n, end |-> q + 1]
       ELSE [ok |-> FALSE, name_end |-> 0, end |-> 0]

\* fields[fname] = val.strip()
SetField(f, fname, val) ==
    [x \in DOMAIN f \cup {fname} |-> IF x = fname THEN val ELSE f[x]]

NoRead == [s |-> <<>>, i |-> 0, name |-> <<>>, val |-> <<>>, end |-> 0]

\* one iteration of the loop over fields_str, from k <= len(fields_str)
FieldStep(fs, k, f) ==
    LET k1 == SkipSeparators(fs, k)
        fm == FieldMatch(fs, k1)
        nxt == FindFrom(fs, k1, {","})
        fname == Lower(SubSeq(fs, k1, fm.name_end - 1))
        rv == ReadValue(fs, fm.end)
        same == [exc |-> NoExc, brk |-> FALSE, k |-> k1, fields |-> f, read |-> NoRead]
    IN IF k1 > Len(fs) THEN [same EXCEPT !.brk = TRUE]
       ELSE IF ~fm.ok
       THEN IF nxt = 0 THEN [same EXCEPT !.brk = TRUE] ELSE [same EXCEPT !.k = nxt + 1]
       ELSE IF rv.exc # NoExc THEN [same EXCEPT !.exc = rv.exc]
       ELSE [exc |-> NoExc, brk |-> FALSE, k |-> rv.end,
             fields |-> SetField(f, fname, Strip(rv.val)),
             read |-> [s |-> fs, i |-> fm.end, name |-> fname, val |-> rv.val,
                       end |-> rv.end]]

\* text.find("@", i) finds nothing: parse_bibtex returns entries
BibReturn ==
    /\ bib_pc = "find"
    /\ FindFrom(bib_clean, bib_i, {"@"}) = 0
    /\ bib_pc' = "done"
    /\ UNCHANGED <<bib_text, bib_clean, bib_i, bib_at, bib_type, bib_open, bib_j, bib_depth,
                   bib_key, fields_str, bib_k, fields, entries, order_index, last_read>>
    /\ UNCHANGED <<tree, phase, scanVars, numVars, buildVars, resolveVars>>

\* an "@" that starts no record
BibSkipAt ==
    /\ bib_pc = "find"
    /\ FindFrom(bib_clean, bib_i, {"@"}) # 0
    /\ HeaderMatch(bib_clean, FindFrom(bib_clean, bib_i, {"@"})) = 0
    /\ bib_at' = FindFrom(bib_clean, bib_i, {"@"})
    /\ bib_i' = AfterAt(FindFrom(bib_clean, bib_i, {"@"}))
    /\ UNCHANGED <<bib_text, bib_clean, bib_pc, bib_type, bib_open, bib_j, bib_depth,
                   bib_key, fields_str, bib_k, fields, entries, order_index, last_read>>
    /\ UNCHANGED <<tree, phase, scanVars, numVars, buildVars, resolveVars>>

\* an "@" with a type and an opening delimiter
BibOpenRecord ==
    /\ bib_pc = "find"
    /\ FindFrom(bib_clean, bib_i, {"@"}) # 0
    /\ LET at == FindFrom(bib_clean, bib_i, {"@"})
           q == HeaderMatch(bib_clean, at)
       IN /\ q # 0
          /\ bib_at' = at
          /\ bib_type' = SubSeq(bib_clean, at + 1, HeaderLettersEnd(bib_clean, at + 1) - 1)
          /\ bib_open' = q
          /\ bib_j' = q
          /\ bib_depth' = 0
          /\ bib_pc' = "record"
    /\ UNCHANGED <<bib_text, bib_clean, bib_i, bib_key, fields_str, bib_k, fields, entries,
                   order_index, last_read>>
    /\ UNCHANGED <<tree, phase, scanVars, numVars, buildVars, resolveVars>>

OpenChar == bib_clean[bib_open]
CloseChar == IF OpenChar = "{" THEN "}" ELSE ")"

\* one iteration of the loop that looks for the end of the record, which
\* does not end it
BibRecordChar ==
    /\ bib_pc = "record"
    /\ bib_j <= Len(bib_clean)
    /\ ~(bib_clean[bib_j] = CloseChar /\ bib_depth - 1 = 0)
    /\ bib_depth' = IF bib_clean[bib_j] = OpenChar THEN bib_depth + 1
                    ELSE IF bib_clean[bib_j] = CloseChar THEN bib_depth - 1
                    ELSE bib_depth
    /\ bib_j' = bib_j + 1
    /\ UNCHANGED <<bib_text, bib_clean, bib_pc, bib_i, bib_at, bib_type, bib_open,
                   bib_key, fields_str, bib_k, fields, entries, order_index, last_read>>
    /\ UNCHANGED <<tree, phase, scanVars, numVars, buildVars, resolveVars>>

\* the text ends inside the record
BibUnterminated ==
    /\ bib_pc = "record"
    /\ bib_j > Len(bib_clean)
    /\ bib_i' = AfterAt(bib_at)
    /\ bib_pc' = "find"
    /\ UNCHANGED <<bib_text, bib_clean, bib_at, bib_type, bib_open, bib_j, bib_depth,
                   bib_key, fields_str, bib_k, fields, entries, order_index, last_read>>
    /\ UNCHANGED <<tree, phase, scanVars, numVars, buildVars, resolveVars>>

RecordEnds ==
    /\ bib_pc = "record"
    /\ bib_j <= Len(bib_clean)
    /\ bib_clean[bib_j] = CloseChar
    /\ bib_depth - 1 = 0

Body == Strip(SubSeq(bib_clean, bib_open + 1, bib_j - 1))

\* a record without a comma that takes an index all the same
BibNoCommaCounts ==
    /\ RecordEnds
    /\ FindFrom(Body, 1, {","}) = 0
    /\ bib_depth' = bib_depth - 1
    /\ bib_i' = bib_j + 1
    /\ bib_pc' = "find"
    /\ order_index' = order_index + 1
    /\ UNCHANGED <<bib_text, bib_clean, bib_at, bib_type, bib_open, bib_j,
                   bib_key, fields_str, bib_k, fields, entries, last_read>>
    /\ UNCHANGED <<tree, phase, scanVars, numVars, buildVars, resolveVars>>

\* the record ends, and its body holds no comma
BibNoComma ==
    /\ RecordEnds
    /\ FindFrom(Body, 1, {","}) = 0
    /\ bib_depth' = bib_depth - 1
    /\ bib_i' = bib_j + 1
    /\ bib_pc' = "find"
    /\ UNCHANGED <<bib_text, bib_clean, bib_at, bib_type, bib_open, bib_j,
                   bib_key, fields_str, bib_k, fields, entries, order_index, last_read>>
    /\ UNCHANGED <<tree, phase, scanVars, numVars, buildVars, resolveVars>>

\* the record ends, and its body holds a key and fields
BibBody ==
    /\ RecordEnds
    /\ FindFrom(Body, 1, {","}) # 0
    /\ bib_depth' = bib_depth - 1
    /\ bib_key' = Strip(SubSeq(Body, 1, FindFrom(Body, 1, {","}) - 1))
    /\ fields_str' = Strip(SubSeq(Body, FindFrom(Body, 1, {","}) + 1, Len(Body)))
    /\ fields' = <<>>
    /\ bib_k' = 1
    /\ last_read' = NoRead
    /\ bib_pc' = "fields"
    /\ UNCHANGED <<bib_text, bib_clean, bib_i, bib_at, bib_type, bib_open, bib_j,
                   entries, order_index>>
    /\ UNCHANGED <<tree, phase, scanVars, numVars, buildVars, resolveVars>>

\* one iteration of the loop over fields_str
BibField ==
    /\ bib_pc = "fields"
    /\ bib_k <= Len(fields_str)
    /\ LET r == FieldStep(fields_str, bib_k, fields)
       IN /\ bib_k' = r.k
          /\ fields' = r.fields
          /\ last_read' = IF r.read = NoRead THEN last_read ELSE r.read
          /\ bib_pc' = IF r.exc # NoExc THEN "raised"
                       ELSE IF r.brk THEN "append" ELSE "fields"
    /\ UNCHANGED <<bib_text, bib_clean, bib_i, bib_at, bib_type, bib_open, bib_j, bib_depth,
                   bib_key, fields_str, entries, order_index>>
    /\ UNCHANGED <<tree, phase, scanVars, numVars, buildVars, resolveVars>>

\* after the loop over fields_str: the record is appended
BibAppend ==
    /\ bib_pc = "append" \/ (bib_pc = "fields" /\ bib_k > Len(fields_str))
    /\ entries' = Append(entries, [entry_type |-> bib_type, key |-> bib_key,
                                   fields |-> fields, order_index |-> order_index])
    /\ order_index' = order_index + 1
    /\ bib_i' = bib_j + 1
    /\ bib_pc' = "find"
    /\ UNCHANGED <<bib_text, bib_clean, bib_at, bib_type, bib_open, bib_j, bib_depth,
                   bib_key, fields_str, bib_k, fields, last_read>>
    /\ UNCHANGED <<tree, phase, scanVars, numVars, buildVars, resolveVars>>

\* the state before a call of parse_bibtex
BibIdle ==
    /\ bib_text = <<>> /\ bib_clean = <<>> /\ bib_pc = "idle" /\ bib_i = 1 /\ bib_at = 0
    /\ bib_type = <<>> /\ bib_open = 0 /\ bib_j = 0 /\ bib_depth = 0 /\ bib_key = <<>>
    /\ fields_str = <<>> /\ bib_k = 1 /\ fields = <<>> /\ entries = <<>>
    /\ order_index = 0 /\ last_read = NoRead

\* text = _strip_inline_comments(bib_text); entries = []; i = 0; order_index = 0
BibStart ==
    /\ bib_pc = "start"
    /\ bib_clean' = StripInlineComments(bib_text)
    /\ entries' = <<>>
    /\ bib_i' = 1
    /\ order_index' = 0
    /\ bib_pc' = "find"
    /\ UNCHANGED <<bib_text, bib_at, bib_type, bib_open, bib_j, bib_depth,
                   bib_key, fields_str, bib_k, fields, last_read>>
    /\ UNCHANGED <<tree, phase, scanVars, numVars, buildVars, resolveVars>>

\* pieces of a .bib file: records that are complete, without a comma,
\* unterminated, delimited by parentheses, with junk between the fields,
\* with nested braces, commented out, with a quote that never closes, and
\* text between records
BibChunks ==
    {<<"@", "a", "{", "k", ",", "t", "=", "{", "v", "}", "}">>,
     <<"@", "a", "{", "k", "}">>,
     <<"@", "a", "{", "k", ",", "t", "=", "{", "v", "}">>,
     <<"@", " ">>,
     <<"@", "a", "(", "k", ",", "t", "=", "\"", "v", "\"", ")">>,
     <<"@", "a", "{", "k", ",", "=", "v", ",", "t", "=", "v", "}">>,
     <<"@", "a", " ", "{", "k", ",", " ", "T", " ", "=", " ", "{", "a", " ", "{", "b", "}", " ", "c", "}", " ", "}">>,
     <<"%", "@", "a", "{", "k", ",", "t", "=", "v", "}", "\n">>,
     <<"@", "b", "{", "k", ",", "t", "=", "v", ",", "b", "-", "1", "_", "c", " ", "=", " ", "\"", "v", "\\", "\"", "a", "\"", " ", "}">>,
     <<"@", "a", "{", "k", ",", "}">>,
     <<"@", "a", "{", "k", ",", "j", "u", "n", "k", "}">>,
     <<"a">>,
     <<"@", "a", "{", "k", ",", "j", "u", "n", "k", ",", "t", "=", "\"", "v", "}">>}

RECURSIVE Concat(_)
Concat(ts) == IF ts = <<>> THEN <<>> ELSE Head(ts) \o Concat(Tail(ts))

BibFiles == {Concat(ts) : ts \in SeqsUpTo(BibChunks, MaxChunks)}

\* one record with one field, whose value is any short text
ValueChars == {"{", "}", "a", " ", "\"", "\\", ",", ")"}
BibValues == {<<>>} \cup SeqsUpTo(ValueChars, MaxValLen)
BibValueFiles ==
    {<<"@", "a", "{", "k", ",", "t", "=">> \o v \o <<"}">> : v \in BibValues}
    \cup {<<"@", "a", "(", "k", ",", "t", "=">> \o v \o <<")">> : v \in BibValues}

\* any short text of the characters the parser looks for
SoupChars == {"@", "a", "{", "}", ",", "=", " ", "%", "\n"}
BibSoups == {<<>>} \cup SeqsUpTo(SoupChars, MaxSoupLen)

BibTexts == BibFiles \cup BibValueFiles \cup BibSoups

(***************************************************************************)
(* The source trees the traversals start from.                             *)
(***************************************************************************)
Cite(keys) == <<"\\cite", "{">> \o keys \o <<"}">>
Input(arg) == <<"\\input", "{">> \o arg \o <<"}">>
Commented(l) == <<"%", " ">> \o l

\* a file of the given lines, each ended by a line break
RECURSIVE FileOf(_)
FileOf(ls) == IF ls = <<>> THEN <<>> ELSE Head(ls) \o <<"\n">> \o FileOf(Tail(ls))


\* Inclusion graphs: two files that cite and include each other, with
\* inclusions that are commented out, inside an \iffalse region, spelled in
\* two ways, repeated, cyclic or without a target.
GraphMainLines ==
    {Cite(<<"a">>),
     Input(<<"sub">>),
     Commented(Input(<<"sub">>)),
     <<"\\iffalse", " ">> \o Input(<<"sub">>) \o <<" ", "\\fi">>,
     Input(<<"main">>),
     Input(<<"./", "sub", ".tex">>),
     Commented(Cite(<<"c">>))}
GraphSubLines ==
    {Cite(<<"b", ",", "a">>),
     Input(<<"main">>),
     Input(<<"ghost">>)}
GraphTrees ==
    {[main |-> FileOf(m), sub |-> FileOf(s)] :
        m \in SeqsUpTo(GraphMainLines, MaxMainLines),
        s \in SeqsUpTo(GraphSubLines, MaxSubLines)}

\* Block structure: one file of block markers, conditional markers and
\* citations, in every order.
BlockLines ==
    {<<"\\begin{verbatim}">>,
     <<"\\end{verbatim}">>,
     <<"\\iffalse">>,
     <<"\\fi">>,
     Cite(<<"a">>),
     Commented(<<"\\fi", " ">> \o Cite(<<"b">>))}
BlockTrees == {[main |-> FileOf(m)] : m \in SeqsUpTo(BlockLines, MaxBlockLines)}

\* Key lists: one citation command whose key list is any text of keys,
\* commas and blanks.
KeyChars == {"a", "b", ",", " "}
KeyTrees ==
    {[main |-> FileOf(<<pre \o Cite(ks)>>)] :
        pre \in {<<>>, <<"x", " ">>}, ks \in SeqsUpTo(KeyChars, MaxKeyLen)}

\* Block ends: one file of a block, end markers of its name and of another
\* name, alone and two on a line, and citations.
EndLines ==
    {<<"\\begin{verbatim}">>,
     <<"\\end{comment}">>,
     <<"\\end{Verbatim}">>,
     <<"\\end{comment}", " ", "\\end{verbatim}">>,
     <<"\\end{verbatim}", " ", "\\end{comment}">>,
     Cite(<<"a">>)}
EndTrees == {[main |-> FileOf(m)] : m \in SeqsUpTo(EndLines, MaxEndLines)}

\* Long lines: a word of 229 to 233 letters and a citation, so that the line
\* without the blanks at its ends has 238 to 242 characters and the limit of
\* the snippet falls before, into or after the citation.
LongWords ==
    {"xxxxxxxxxxxxxxxxxxxxxxxxxxxxxxxxxxxxxxxxxxxxxxxxxxxxxxxxxxxxxxxxxxxxxxxxxxxxxxxxxxxxxxxxxxxxxxxxxxxxxxxxxxxxxxxxxxxxxxxxxxxxxxxxxxxxxxxxxxxxxxxxxxxxxxxxxxxxxxxxxxxxxxxxxxxxxxxxxxxxxxxxxxxxxxxxxxxxxxxxxxxxxxxxxxxxxxxxxxxxxxxxxxxxx",
     "xxxxxxxxxxxxxxxxxxxxxxxxxxxxxxxxxxxxxxxxxxxxxxxxxxxxxxxxxxxxxxxxxxxxxxxxxxxxxxxxxxxxxxxxxxxxxxxxxxxxxxxxxxxxxxxxxxxxxxxxxxxxxxxxxxxxxxxxxxxxxxxxxxxxxxxxxxxxxxxxxxxxxxxxxxxxxxxxxxxxxxxxxxxxxxxxxxxxxxxxxxxxxxxxxxxxxxxxxxxxxxxxxxxxxx",
     "xxxxxxxxxxxxxxxxxxxxxxxxxxxxxxxxxxxxxxxxxxxxxxxxxxxxxxxxxxxxxxxxxxxxxxxxxxxxxxxxxxxxxxxxxxxxxxxxxxxxxxxxxxxxxxxxxxxxxxxxxxxxxxxxxxxxxxxxxxxxxxxxxxxxxxxxxxxxxxxxxxxxxxxxxxxxxxxxxxxxxxxxxxxxxxxxxxxxxxxxxxxxxxxxxxxxxxxxxxxxxxxxxxxxxxx",
     "xxxxxxxxxxxxxxxxxxxxxxxxxxxxxxxxxxxxxxxxxxxxxxxxxxxxxxxxxxxxxxxxxxxxxxxxxxxxxxxxxxxxxxxxxxxxxxxxxxxxxxxxxxxxxxxxxxxxxxxxxxxxxxxxxxxxxxxxxxxxxxxxxxxxxxxxxxxxxxxxxxxxxxxxxxxxxxxxxxxxxxxxxxxxxxxxxxxxxxxxxxxxxxxxxxxxxxxxxxxxxxxxxxxxxxxx",
     "xxxxxxxxxxxxxxxxxxxxxxxxxxxxxxxxxxxxxxxxxxxxxxxxxxxxxxxxxxxxxxxxxxxxxxxxxxxxxxxxxxxxxxxxxxxxxxxxxxxxxxxxxxxxxxxxxxxxxxxxxxxxxxxxxxxxxxxxxxxxxxxxxxxxxxxxxxxxxxxxxxxxxxxxxxxxxxxxxxxxxxxxxxxxxxxxxxxxxxxxxxxxxxxxxxxxxxxxxxxxxxxxxxxxxxxxx"}
LongLines ==
    {pad \o <<w, " ">> \o Cite(<<"a">>) \o pad : w \in LongWords, pad \in {<<>>, <<" ">>}}
    \cup {Cite(<<"a">>) \o <<" ", w>> : w \in LongWords}
    \cup {<<w>> \o Cite(<<"a">>) \o <<" ">> \o Cite(<<"b">>) : w \in LongWords}
LongTrees == {[main |-> FileOf(<<l>>)] : l \in LongLines}

\* Markers and citations on one line, and a key list over two lines: a
\* whole block on one line, a citation before \iffalse, the two halves of
\* a citation command whose key list holds a line break.
MixLines ==
    {<<"\\begin{verbatim}", " ">> \o Cite(<<"a">>) \o <<" ", "\\end{verbatim}", " ">>
         \o Cite(<<"b">>),
     Cite(<<"a">>) \o <<" ", "\\iffalse", " ">> \o Cite(<<"b">>),
     <<"\\fi">>,
     Cite(<<"c">>),
     <<"\\cite", "{", "a", ",">>,
     <<"b", "}">>}
MixTrees == {[main |-> FileOf(m)] : m \in SeqsUpTo(MixLines, MaxMixLines)}

\* Open ends: an included file that may leave a block or an \iffalse region
\* open, and a main file that includes it, cites and holds closing markers.
OpenMainLines ==
    {Input(<<"sub">>),
     Cite(<<"a">>),
     <<"\\end{verbatim}">>,
     <<"\\fi">>}
OpenSubLines ==
    {<<"\\begin{verbatim}">>,
     <<"\\iffalse">>,
     Cite(<<"b">>)}
OpenTrees ==
    {[main |-> FileOf(m), sub |-> FileOf(s)] :
        m \in SeqsUpTo(OpenMainLines, MaxMainLines),
        s \in SeqsUpTo(OpenSubLines, MaxSubLines)}

Trees ==
    GraphTrees \cup BlockTrees \cup KeyTrees \cup EndTrees \cup LongTrees \cup MixTrees
    \cup OpenTrees

\* no resolver has been made
ResolveIdle ==
    /\ pdf_doc = <<>>
    /\ self_band = None
    /\ calls = MaxCalls
    /\ detect_runs = 0
    /\ last_tool = [status |-> "missing", stdout |-> <<>>]
    /\ last_result = [exc |-> NoExc, value |-> <<None, None>>]

\* build_output_data is not running
NoResolver == [present |-> FALSE, resolve |-> [l \in 1..MaxLine |-> NoLoc]]
BuildIdle ==
    /\ bib_entries = <<>>
    /\ cit_occ = <<>>
    /\ pdf_resolver = NoResolver
    /\ cit_numbers = <<>>
    /\ build_pc = "idle"
    /\ be_idx = 1
    /\ cards = <<>>
    /\ cards_sorted_idx = <<>>
    /\ used = {}
    /\ next_num = 1
    /\ fill_pos = 1
    /\ returned = <<>>

Init ==
    /\ tree \in Trees
    /\ phase = "scan_call"
    /\ scan_stack = <<>>
    /\ scan_visited = {}
    /\ occurrences = <<>>
    /\ scan_reads = [f \in DOMAIN tree |-> 0]
    /\ num_stack = <<>>
    /\ num_visited = {}
    /\ numbers = <<>>
    /\ counter = 0
    /\ num_reads = [f \in DOMAIN tree |-> 0]
    /\ BuildIdle
    /\ ResolveIdle
    /\ BibIdle

Next ==
    \/ ScanStart
    \/ ScanIncludeSkip
    \/ ScanIncludeVisited
    \/ ScanIncludeEnter
    \/ ScanLine
    \/ ScanReturn
    \/ NumStart
    \/ NumIncludeSkip
    \/ NumIncludeVisited
    \/ NumIncludeEnter
    \/ NumCite
    \/ NumReturn

Spec == Init /\ [][Next]_vars

(***************************************************************************)
(* build_output_data on its own, from any bibliography, occurrence         *)
(* mapping, resolver and numbering within the bounds.                      *)
(***************************************************************************)
BibKeys == {"X", "Y"}
NumKeys == {"X", "Y", "Z"}

\* bibliographies: lists of keys, a key may stand twice
BibLists == SeqsUpTo(BibKeys, MaxBib)

\* occurrence mappings: a key is absent or has a list of occurrences
OccLists ==
    {<<>>} \cup {[i \in 1..Len(ls) |-> [file |-> "main", line |-> ls[i], column |-> 1]] :
                    ls \in SeqsUpTo(1..MaxLine, MaxOccs)}
OccMaps == UNION {[D -> OccLists] : D \in SUBSET BibKeys}

\* what resolve answers: nothing, a page, or a page and a printed line
Locs == {NoLoc, [page |-> Some(1), printed |-> None], [page |-> Some(1), printed |-> Some(1)]}
Resolvers ==
    {NoResolver} \cup {[present |-> TRUE, resolve |-> f] : f \in [1..MaxLine -> Locs]}

\* numberings as compute_citation_numbers returns them: one to one onto 1..N
Numberings ==
    UNION {{f \in [D -> 1..Cardinality(D)] : \A j \in D : \A k \in D : f[j] = f[k] => j = k} :
           D \in SUBSET NumKeys}

\* the traversals are over, of a project of one empty file
ScanIdle ==
    /\ tree = [main |-> <<>>]
    /\ phase = "done"
    /\ scan_stack = <<>>
    /\ scan_visited = {}
    /\ occurrences = <<>>
    /\ scan_reads = [f \in {"main"} |-> 0]
    /\ num_stack = <<>>
    /\ num_visited = {}
    /\ numbers = <<>>
    /\ counter = 0
    /\ num_reads = [f \in {"main"} |-> 0]

InitBuild ==
    /\ ScanIdle
    /\ ResolveIdle
    /\ BibIdle
    /\ bib_entries \in BibLists
    /\ cit_occ \in OccMaps
    /\ pdf_resolver \in Resolvers
    /\ cit_numbers \in Numberings
    /\ build_pc = "cards"
    /\ be_idx = 1
    /\ cards = <<>>
    /\ cards_sorted_idx = <<>>
    /\ used = {}
    /\ next_num = 1
    /\ fill_pos = 1
    /\ returned = <<>>

NextBuild ==
    \/ BuildEntrySkip
    \/ BuildEntryCard
    \/ BuildSort
    \/ BuildFillKeep
    \/ BuildFillAssign
    \/ BuildReturn

SpecBuild == InitBuild /\ [][NextBuild]_vars

(***************************************************************************)
(* A PdfLinenoResolver on its own: any PDF within the bounds, and resolve  *)
(* calls with any run of the tool.                                         *)
(***************************************************************************)
InitResolve ==
    /\ ScanIdle
    /\ BuildIdle
    /\ BibIdle
    /\ pdf_doc \in Docs
    /\ self_band = None
    /\ calls = 0
    /\ detect_runs = 0
    /\ last_tool = [status |-> "missing", stdout |-> <<>>]
    /\ last_result = [exc |-> NoExc, value |-> <<None, None>>]

NextResolve ==
    \/ ResolveToolFails
    \/ ResolveDetects
    \/ ResolveCached

SpecResolve == InitResolve /\ [][NextResolve]_vars

(***************************************************************************)
(* parse_bibtex on its own, called with any text within the bounds.        *)
(***************************************************************************)
InitBib ==
    /\ ScanIdle
    /\ BuildIdle
    /\ ResolveIdle
    /\ bib_text \in BibTexts
    /\ bib_clean = <<>>
    /\ bib_pc = "start"
    /\ bib_i = 1
    /\ bib_at = 0
    /\ bib_type = <<>>
    /\ bib_open = 0
    /\ bib_j = 0
    /\ bib_depth = 0
    /\ bib_key = <<>>
    /\ fields_str = <<>>
    /\ bib_k = 1
    /\ fields = <<>>
    /\ entries = <<>>
    /\ order_index = 0
    /\ last_read = NoRead

NextBib ==
    \/ BibStart
    \/ BibReturn
    \/ BibSkipAt
    \/ BibOpenRecord
    \/ BibRecordChar
    \/ BibUnterminated
    \/ BibNoComma
    \/ BibBody
    \/ BibField
    \/ BibAppend

SpecBib == InitBib /\ [][NextBib]_vars

(***************************************************************************)
(* Definitions the properties below are stated with.                       *)
(***************************************************************************)
LinesOf(f) == SplitLines(tree[f])

\* What the line loop reports for one file scanned alone, from the normal state.
RECURSIVE OwnOccurrencesFrom(_, _, _, _, _)
OwnOccurrencesFrom(ls, n, env, name, iff) ==
    IF n > Len(ls) THEN <<>>
    ELSE LET r == LineStep(env, name, iff, ls[n])
         IN [i \in 1..Len(r.found) |->
                [key |-> r.found[i].key, line |-> n, column |-> r.found[i].column]]
            \o OwnOccurrencesFrom(ls, n + 1, r.in_block_env, r.in_block_name, r.in_iffalse)

OwnOccurrences(f) == OwnOccurrencesFrom(LinesOf(f), 1, FALSE, NoName, FALSE)

\* The occurrences reported for file f, over all keys.
ReportedFor(f) ==
    UNION {{[key |-> k, line |-> occurrences[k][n].line,
             column |-> occurrences[k][n].column] :
               n \in {m \in 1..Len(occurrences[k]) : occurrences[k][m].file = f}} :
           k \in DOMAIN occurrences}

RECURSIVE SumLen(_, _)
SumLen(f, ks) ==
    IF ks = {} THEN 0
    ELSE LET k == CHOOSE k \in ks : TRUE
         IN Cardinality({n \in 1..Len(occurrences[k]) : occurrences[k][n].file = f})
            + SumLen(f, ks \ {k})

\* The number of occurrences reported for file f.
ReportedCount(f) == SumLen(f, DOMAIN occurrences)

\* The file an inclusion match of file f names, or "?".
TargetOf(f, m) ==
    IF Strip(m.arg) = <<>> THEN "?" ELSE ResolveIncludedPath(f, Strip(m.arg))

\* The inclusion matches of file f that name file t.
InclusionsOf(f, t) ==
    {n \in 1..Len(IncludeMatches(tree[f])) : TargetOf(f, IncludeMatches(tree[f])[n]) = t}

\* The keys of the citation commands of file f's cleaned text.
CleanedKeys(f) ==
    UNION {Range(CleanedCites(tree[f])[n].keys) : n \in 1..Len(CleanedCites(tree[f]))}

(***************************************************************************)
(* C1: the list build_output_data returns is sorted ascending by           *)
(* (firstOccurrence, bibIndex, key): of two cards, the one with the        *)
(* smaller tuple comes earlier.  The code sorts positions only to fill in  *)
(* numbers, and returns the cards in the order of the bibliography.        *)
(***************************************************************************)
C1_ReturnedSorted ==
    build_pc = "returned" =>
        \A i \in 1..Len(returned) : \A j \in 1..Len(returned) :
            SortKeyLess(returned[i], returned[j]) => i < j

(***************************************************************************)
(* C4: every returned card has a number, no two cards share a number, and  *)
(* the numbers of M returned cards are exactly 1..M.  A numbered key       *)
(* without a bibliography record leaves a gap, and two records with one    *)
(* key share that key's number.                                            *)
(***************************************************************************)
C4_OrderNumsExact ==
    build_pc = "returned" =>
        /\ \A i \in 1..Len(returned) : returned[i].orderNum # None
        /\ \A i \in 1..Len(returned) : \A j \in 1..Len(returned) :
               returned[i].orderNum = returned[j].orderNum => i = j
        /\ {returned[i].orderNum : i \in 1..Len(returned)} =
               {Some(n) : n \in 1..Len(returned)}

(***************************************************************************)
(* C5: build_output_data returns a card for a bibliography record if and   *)
(* only if the occurrence mapping holds at least one occurrence for the    *)
(* record's key, and every returned card has a list of occurrences that    *)
(* is not empty.                                                           *)
(***************************************************************************)
\* The mapping holds an occurrence for key k.
Cited(k) == k \in DOMAIN cit_occ /\ Len(cit_occ[k]) >= 1

\* The returned cards of record number i.
CardsOfRecord(i) ==
    {c \in 1..Len(returned) :
        returned[c].bibIndex = i - 1 /\ returned[c].key = bib_entries[i]}

C5_CardIffCited ==
    /\ \A c \in 1..Len(cards) :
           /\ cards[c].occurrences # <<>>
           /\ Cited(cards[c].key)
    /\ build_pc = "returned" =>
           /\ \A i \in 1..Len(bib_entries) :
                  Cardinality(CardsOfRecord(i)) = IF Cited(bib_entries[i]) THEN 1 ELSE 0
           /\ \A c \in 1..Len(returned) :
                  /\ returned[c].occurrences # <<>>
                  /\ \E i \in 1..Len(bib_entries) : c \in CardsOfRecord(i)

\* A bibliography of a cited and an uncited record, the uncited one with a
\* number and with an empty list in the mapping, has been built into one card.
C5_Witness ==
    /\ build_pc = "returned"
    /\ Len(bib_entries) = 2
    /\ Cited(bib_entries[1])
    /\ bib_entries[2] \in DOMAIN cit_occ
    /\ cit_occ[bib_entries[2]] = <<>>
    /\ bib_entries[2] \in DOMAIN cit_numbers
    /\ Len(returned) = 1

(***************************************************************************)
(* C14: the rank (firstOccurrence) of every card is the minimum, in        *)
(* lexicographic order, over the card's occurrences of (page or 10^9,      *)
(* printed line or 10^9, source line); when the tool answers for no        *)
(* occurrence, or no resolver is given, every occurrence has no page and   *)
(* no printed line, every cited record still has its card, and each rank   *)
(* is (10^9, 10^9, smallest source line of the record's occurrences).      *)
(***************************************************************************)
\* the tuple of one occurrence of a card
CardOccOrder(o) ==
    <<IF o.pdfPage # None THEN o.pdfPage[1] ELSE Sentinel,
      IF o.pdfLineno # None THEN o.pdfLineno[1] ELSE Sentinel,
      o.line>>

CardOccOrders(card) ==
    {CardOccOrder(card.occurrences[i]) : i \in 1..Len(card.occurrences)}

\* no resolver, or one whose tool answers for no line
ToolUnavailable ==
    ~pdf_resolver.present \/ \A l \in 1..MaxLine : pdf_resolver.resolve[l] = NoLoc

C14_RankIsMinimum ==
    /\ \A c \in 1..Len(cards) :
           /\ cards[c].firstOccurrence \in CardOccOrders(cards[c])
           /\ \A o \in CardOccOrders(cards[c]) : ~TupleLess(o, cards[c].firstOccurrence)
           /\ Len(cards[c].occurrences) = Len(cit_occ[cards[c].key])
           /\ \A i \in 1..Len(cards[c].occurrences) :
                  cards[c].occurrences[i].line = cit_occ[cards[c].key][i].line
    /\ ToolUnavailable =>
           /\ \A c \in 1..Len(cards) :
                  /\ \A i \in 1..Len(cards[c].occurrences) :
                         /\ cards[c].occurrences[i].pdfPage = None
                         /\ cards[c].occurrences[i].pdfLineno = None
                  /\ cards[c].firstOccurrence =
                         <<Sentinel, Sentinel,
                           MinOf({cit_occ[cards[c].key][i].line :
                                     i \in 1..Len(cit_occ[cards[c].key])})>>
           /\ build_pc = "returned" =>
                  \A i \in 1..Len(bib_entries) :
                      Cited(bib_entries[i]) =>
                          \E c \in 1..Len(returned) :
                              /\ returned[c].key = bib_entries[i]
                              /\ returned[c].bibIndex = i - 1

\* A returned card of two occurrences with a resolver: the first has no
\* page, the second has one, and the rank is the tuple of the second.
C14_Witness ==
    /\ build_pc = "returned"
    /\ pdf_resolver.present
    /\ \E c \in 1..Len(returned) :
           /\ Len(returned[c].occurrences) = 2
           /\ returned[c].occurrences[1].pdfPage = None
           /\ returned[c].occurrences[2].pdfPage # None
           /\ returned[c].occurrences[1].line < returned[c].occurrences[2].line
           /\ returned[c].firstOccurrence = CardOccOrder(returned[c].occurrences[2])

(***************************************************************************)
(* C11: resolve never raises; when the tool is missing, exits non-zero or  *)
(* prints output from which page, x and y cannot all be parsed, resolve    *)
(* returns (None, None), and the call leaves the resolver as it was, so    *)
(* that later calls are processed as without it.                           *)
(***************************************************************************)
LastToolFailed == calls > 0 /\ SynctexView(last_tool).exc # NoExc

ResolveSoft ==
    /\ last_result.exc = NoExc
    /\ LastToolFailed => last_result.value = <<None, None>>

FailedCallLeavesResolver ==
    SynctexView(last_tool').exc # NoExc =>
        self_band' = self_band /\ detect_runs' = detect_runs

C11_ResolveNeverRaises == []ResolveSoft /\ [][FailedCallLeavesResolver]_vars

\* A call whose tool output holds text where the page number should be,
\* made on a resolver that has a band from an earlier call.
C11_Witness ==
    /\ calls >= 2
    /\ self_band # None
    /\ last_tool.status = "ok"
    /\ last_tool.stdout # <<>>
    /\ SynctexView(last_tool).exc = "ValueError"
    /\ last_result = [exc |-> NoExc, value |-> <<None, None>>]

(***************************************************************************)
(* C12: over any sequence of resolve calls on one resolver,                *)
(* auto_detect_margin_band runs at most once, also when it finds no band.  *)
(* _ensure_band caches only a band that was found: after a detection that *)
(* raises, self._band is still None and the next call detects again.       *)
(***************************************************************************)
C12_DetectsAtMostOnce == detect_runs <= 1

(***************************************************************************)
(* C13: when no margin band can be detected, every resolve call whose tool *)
(* run succeeds returns (page, None) with the page the tool reported; a    *)
(* page lookup that fails (page out of range) costs that call its line     *)
(* number only: the page is returned and the band is kept.                 *)
(***************************************************************************)
LastPage == SynctexView(last_tool).page

\* no scanned page of the PDF has a numeric token, whatever the page hint
NoBandInDocument ==
    \A hint \in 0..(MaxPages + 3) : AutoDetectBands(pdf_doc, hint) = {}

PageKeptWithoutLineno ==
    (calls > 0 /\ SynctexView(last_tool).exc = NoExc) =>
        /\ last_result.exc = NoExc
        /\ last_result.value[1] = Some(LastPage)
        /\ (NoBandInDocument \/ self_band = None) => last_result.value[2] = None
        /\ (LastPage < 1 \/ LastPage > Len(pdf_doc)) => last_result.value[2] = None

BandKept == self_band # None => self_band' = self_band

C13_PageWithoutBand == []PageKeptWithoutLineno /\ [][BandKept]_vars

\* The second call or a later one on a PDF without any number: the tool
\* reported page 1, and the call returned (1, None).
C13_Witness ==
    /\ calls >= 2
    /\ NoBandInDocument
    /\ SynctexView(last_tool).exc = NoExc
    /\ last_result.value = <<Some(1), None>>
    /\ detect_runs >= 2

(***************************************************************************)
(* C15: parse_bibtex terminates and returns its list without raising,      *)
(* whatever the text: unterminated braces or quotes, an "@" that starts no *)
(* record, a record without a comma, field text that matches no "name ="   *)
(* pattern.  Every iteration of the loop over the text leaves i further    *)
(* on, every iteration of the loop over a record j, and every iteration of *)
(* the loop over the fields k.                                             *)
(***************************************************************************)
\* an upper bound of the steps parse_bibtex still takes
BibVariant(pc, clean, i, open, j, fs, k) ==
    LET L == Len(clean)
        W == 2 * L + 6
        left == (L + 2 - i) * W
    IN CASE pc = "start" -> (Len(bib_text) + 2) * (2 * Len(bib_text) + 6) + 1
         [] pc = "find" -> left
         [] pc = "record" -> left - (1 + j - open)
         [] pc = "fields" -> left - (L + 2 + k)
         [] pc = "append" -> left - (L + 4 + Len(fs))
         [] OTHER -> 0

BibAdvances ==
    /\ (bib_pc \in {"find", "record", "fields", "append"} /\ bib_pc' = "find")
          => bib_i' > bib_i
    /\ (bib_pc = "record" /\ bib_pc' = "record") => bib_j' > bib_j
    /\ (bib_pc = "fields" /\ bib_pc' = "fields") => bib_k' > bib_k
    /\ last_read' # last_read => last_read'.end >= last_read'.i
    /\ BibVariant(bib_pc', bib_clean', bib_i', bib_open', bib_j', fields_str', bib_k')
          < BibVariant(bib_pc, bib_clean, bib_i, bib_open, bib_j, fields_str, bib_k)

\* the iteration a loop is about to make leaves the loop or moves its position
BibLoopsMove ==
    /\ (bib_pc = "find" /\ FindFrom(bib_clean, bib_i, {"@"}) # 0)
          => \/ HeaderMatch(bib_clean, FindFrom(bib_clean, bib_i, {"@"})) # 0
             \/ AfterAt(FindFrom(bib_clean, bib_i, {"@"})) > bib_i
    /\ (bib_pc = "record" /\ bib_j > Len(bib_clean)) => AfterAt(bib_at) > bib_i
    /\ (bib_pc = "fields" /\ bib_k <= Len(fields_str))
          => LET r == FieldStep(fields_str, bib_k, fields)
             IN r.brk \/ r.exc # NoExc \/ r.k > bib_k

BibGoesOn ==
    /\ bib_pc \in {"start", "find", "record", "fields", "append", "done"}
    /\ BibVariant(bib_pc, bib_clean, bib_i, bib_open, bib_j, fields_str, bib_k) >= 0
    /\ BibLoopsMove

C15_ParseTerminates == []BibGoesOn /\ [][BibAdvances]_vars

\* returned from a text with an "@" that starts no record, field text that
\* matches no pattern, a quote that never closes and a record that never ends
C15_Witness ==
    /\ bib_pc = "done"
    /\ bib_text = <<"@", " ">>
                  \o <<"@", "a", "{", "k", ",", "j", "u", "n", "k", ",", "t", "=", "\"", "v", "}">>
                  \o <<"@", "a", "{", "k", ",", "t", "=", "{", "v", "}">>
    /\ Len(entries) = 1
    /\ entries[1].fields = SetField(<<>>, <<"t">>, <<"v">>)

(***************************************************************************)
(* C16: the record at place n of the list parse_bibtex builds, counted     *)
(* from 0 in the order of the text, has order_index n.  A record that is   *)
(* skipped (no comma in its body, no end, an "@" without type and opening  *)
(* delimiter) takes no index, and the records after it are parsed.         *)
(***************************************************************************)
OrderIndexIsPlace ==
    /\ order_index = Len(entries)
    /\ \A n \in 1..Len(entries) : entries[n].order_index = n - 1

\* a record is appended after the ones before it: it starts at or after i,
\* which is left past its end
AppendedInTextOrder ==
    Len(entries') > Len(entries)
        => /\ bib_at >= bib_i
           /\ bib_i' > bib_at
           /\ SubSeq(entries', 1, Len(entries)) = entries

SkippedKeepsList ==
    (bib_pc' = "find" /\ bib_pc \in {"find", "record"})
        => entries' = entries /\ order_index' = order_index

C16_OrderIndexIsPosition ==
    []OrderIndexIsPlace /\ [][AppendedInTextOrder /\ SkippedKeepsList]_vars

\* a record, a record without a comma, and a record of another type
C16_Witness ==
    /\ bib_pc = "done"
    /\ bib_text = <<"@", "a", "{", "k", ",", "t", "=", "{", "v", "}", "}">>
                  \o <<"@", "a", "{", "k", "}">>
                  \o <<"@", "b", "{", "k", ",", "t", "=", "v", ",", "b", "-", "1", "_", "c",
                       " ", "=", " ", "\"", "v", "\\", "\"", "a", "\"", " ", "}">>
    /\ Len(entries) = 2
    /\ entries[1].entry_type = <<"a">> /\ entries[1].order_index = 0
    /\ entries[2].entry_type = <<"b">> /\ entries[2].order_index = 1

(***************************************************************************)
(* C17: for a value in braces whose opening brace has its closing brace in *)
(* the field text, _read_braced returns the text between the two, at any   *)
(* depth of nesting: the outer pair is gone, every inner brace is kept,    *)
(* and the end position is just past the closing brace ({a {b} c} gives    *)
(* a {b} c).  parse_bibtex stores that text without the whitespace at its  *)
(* two ends: it stores val.strip(), so { a } is stored as a.               *)
(***************************************************************************)
CountOf(t, a, b, c) == Cardinality({n \in a..b : t[n] = c})

\* the closing brace that matches the opening brace at p: the first "}"
\* up to which as many braces close as open; 0 if there is none
MatchingClose(t, p) ==
    LET qs == {q \in (p + 1)..Len(t) :
                   t[q] = "}" /\ CountOf(t, p, q, "{") = CountOf(t, p, q, "}")}
    IN IF qs = {} THEN 0 ELSE MinOf(qs)

\* where the value of the last call of _read_value starts
ReadStart == SkipSpace(last_read.s, last_read.i)

\* the last call of _read_value met a value in balanced braces
BalancedBraceRead ==
    /\ last_read # NoRead
    /\ ReadStart <= Len(last_read.s)
    /\ last_read.s[ReadStart] = "{"
    /\ MatchingClose(last_read.s, ReadStart) # 0

BraceTextReturned ==
    /\ last_read.val = SubSeq(last_read.s, ReadStart + 1,
                              MatchingClose(last_read.s, ReadStart) - 1)
    /\ last_read.end = MatchingClose(last_read.s, ReadStart) + 1
    /\ CountOf(last_read.val, 1, Len(last_read.val), "{")
          = CountOf(last_read.val, 1, Len(last_read.val), "}")

C17_BraceTextStoredStripped ==
    BalancedBraceRead
        => /\ BraceTextReturned
           /\ last_read.name \in DOMAIN fields
           /\ fields[last_read.name] = Strip(last_read.val)

\* C17 as it is worded: the stored value is the text between the braces
C17_BraceTextStored ==
    BalancedBraceRead
        => /\ BraceTextReturned
           /\ last_read.name \in DOMAIN fields
           /\ fields[last_read.name] = last_read.val

\* the record @a {k, T = {a {b} c} } has been read
C17_Witness ==
    /\ BalancedBraceRead
    /\ last_read.val = <<"a", " ", "{", "b", "}", " ", "c">>
    /\ last_read.end = Len(last_read.s) + 1
    /\ fields = SetField(<<>>, <<"t">>, <<"a", " ", "{", "b", "}", " ", "c">>)

(***************************************************************************)
(* C21: build_output_data numbers the cards without a number from          *)
(* cit_numbers in ascending order of (firstOccurrence, bibIndex, key); the *)
(* card at hand gets the smallest positive integer that no card holds at   *)
(* that moment.  A card that has a number keeps it, and without a          *)
(* numbering the cards get 1..M in that order.                             *)
(***************************************************************************)
\* the numbers the cards cs hold
NumbersHeld(cs) == {cs[j].orderNum[1] : j \in {i \in 1..Len(cs) : cs[i].orderNum # None}}

\* the smallest positive integer outside the finite set u
SmallestFree(u) == MinOf({n \in 1..(Cardinality(u) + 1) : n \notin u})

\* the positions of cs whose number differs in ds
Renumbered(cs, ds) == {i \in 1..Len(cs) : ds[i].orderNum # cs[i].orderNum}

FillsInOrder ==
    (build_pc = "fill" /\ Len(cards') = Len(cards))
        => /\ Cardinality(Renumbered(cards, cards')) <= 1
           /\ \A i \in Renumbered(cards, cards') :
                 /\ cards[i].orderNum = None
                 /\ cards'[i].orderNum = Some(SmallestFree(NumbersHeld(cards)))
                 /\ \A j \in 1..Len(cards) :
                       (j # i /\ cards[j].orderNum = None) => SortKeyLess(cards[i], cards[j])
           /\ \A i \in 1..Len(cards) :
                 [cards'[i] EXCEPT !.orderNum = None] = [cards[i] EXCEPT !.orderNum = None]

ReturnedNumbers ==
    build_pc = "returned" =>
        \A i \in 1..Len(returned) :
            /\ returned[i].orderNum # None
            /\ returned[i].key \in DOMAIN cit_numbers
                  => returned[i].orderNum = Some(cit_numbers[returned[i].key])
            /\ cit_numbers = <<>>
                  => returned[i].orderNum =
                        Some(1 + Cardinality({j \in 1..Len(returned) :
                                                 SortKeyLess(returned[j], returned[i])}))

C21_FillsSmallestUnused == []ReturnedNumbers /\ [][FillsInOrder]_vars

\* two cards, of which the one of the bibliography's second record had no
\* number and got 1, below the number 2 the first one keeps
C21_Witness ==
    /\ build_pc = "returned"
    /\ Len(returned) = 2
    /\ returned[1].key \in DOMAIN cit_numbers
    /\ returned[2].key \notin DOMAIN cit_numbers
    /\ returned[1].orderNum = Some(2)
    /\ returned[2].orderNum = Some(1)

(***************************************************************************)
(* The compiled order: a file's citation commands and inclusions in the    *)
(* order of the raw text, an included file standing where its directive    *)
(* is.                                                                     *)
(***************************************************************************)
RECURSIVE MergeByPos(_, _)
MergeByPos(a, b) ==
    IF a = <<>> THEN b
    ELSE IF b = <<>> THEN a
    ELSE IF Head(a).pos < Head(b).pos THEN <<Head(a)>> \o MergeByPos(Tail(a), b)
    ELSE <<Head(b)>> \o MergeByPos(a, Tail(b))

FileEvents(f) ==
    LET im == IncludeMatches(tree[f])
        cm == CleanedCites(tree[f])
    IN MergeByPos(
         [n \in 1..Len(im) |-> [pos |-> im[n].pos, inc |-> TRUE, arg |-> im[n].arg, keys |-> <<>>]],
         [n \in 1..Len(cm) |-> [pos |-> cm[n].pos, inc |-> FALSE, arg |-> <<>>, keys |-> cm[n].keys]])

RECURSIVE CompiledFile(_, _)
RECURSIVE CompiledEvents(_, _, _)
CompiledFile(st, f) ==
    IF f \in st.visited THEN st
    ELSE CompiledEvents([st EXCEPT !.visited = @ \cup {f}], f, FileEvents(f))
CompiledEvents(st, f, ev) ==
    IF ev = <<>> THEN st
    ELSE LET e == Head(ev)
             t == TargetOf(f, e)
             r == AssignNumbers([numbers |-> st.numbers, counter |-> st.counter], e.keys)
         IN IF e.inc
            THEN CompiledEvents(IF Exists(t) THEN CompiledFile(st, t) ELSE st, f, Tail(ev))
            ELSE CompiledEvents([st EXCEPT !.numbers = r.numbers, !.counter = r.counter],
                                f, Tail(ev))

CompiledNumbers ==
    CompiledFile([visited |-> {}, numbers |-> <<>>, counter |-> 0], "main").numbers

(***************************************************************************)
(* C2: compute_citation_numbers numbers keys in the order they first       *)
(* appear in the compiled document, where an included file's content       *)
(* stands at the position of its inclusion directive: if A's first         *)
(* citation precedes B's first citation in that order, then                *)
(* number(A) < number(B).  The code follows all inclusions of a file       *)
(* before it numbers the file's own citations.                             *)
(***************************************************************************)
C2_CompiledOrder ==
    phase = "done" =>
        \A A \in DOMAIN CompiledNumbers : \A B \in DOMAIN CompiledNumbers :
            CompiledNumbers[A] < CompiledNumbers[B] =>
                /\ A \in DOMAIN numbers
                /\ B \in DOMAIN numbers
                /\ numbers[A] < numbers[B]

(***************************************************************************)
(* C3: the numbering is injective and its values are exactly 1..N; during  *)
(* the traversal the counter equals the number of keys numbered so far,    *)
(* and a key that has a number is never given a different one.             *)
(***************************************************************************)
NumbersGapFree ==
    /\ counter = Cardinality(DOMAIN numbers)
    /\ Range(numbers) = 1..counter
    /\ \A j \in DOMAIN numbers : \A k \in DOMAIN numbers :
           numbers[j] = numbers[k] => j = k

NumbersStable ==
    \A k \in DOMAIN numbers : k \in DOMAIN numbers' /\ numbers'[k] = numbers[k]

C3_GapFreeStable == []NumbersGapFree /\ [][NumbersStable]_vars

\* The numbering pass is about to handle a citation command that names a
\* key numbered before, with two keys numbered.
C3_Witness ==
    /\ phase = "num"
    /\ num_stack # <<>>
    /\ Top(num_stack).incs = <<>>
    /\ Top(num_stack).cites # <<>>
    /\ counter >= 2
    /\ \E k \in Range(Head(Top(num_stack).cites).keys) : k \in DOMAIN numbers

(***************************************************************************)
(* C6: the scanner never reports an occurrence on a line inside a stripped *)
(* region of its file: from a \begin{name} line through the next           *)
(* \end{name} line of the same name, or from an \iffalse line through the  *)
(* next \fi line, whatever other markers the file holds.  The line loop    *)
(* does not take a \begin line that stands inside another region for the   *)
(* start of a region.                                                      *)
(***************************************************************************)
\* Line n of ls holds a \begin or an \end of the block environment name.
BeginsOnLine(ls, n, name) == \E i \in 1..Len(ls[n]) : BeginName(ls[n][i]) = name
EndsOnLine(ls, n, name) == \E i \in 1..Len(ls[n]) : EndName(ls[n][i]) = name

\* Line n of ls lies from a region's first line through its last line.
InStrippedRegion(ls, n) ==
    \E b \in 1..n :
        \/ \E name \in ENV_SKIP :
              /\ BeginsOnLine(ls, b, name)
              /\ \A e \in b..(n - 1) : ~EndsOnLine(ls, e, name)
        \/ /\ HasIffalse(ls[b])
           /\ \A e \in b..(n - 1) : ~HasFi(ls[e])

C6_NoOccurrenceInRegion ==
    \A k \in DOMAIN occurrences : \A n \in 1..Len(occurrences[k]) :
        ~InStrippedRegion(LinesOf(occurrences[k][n].file), occurrences[k][n].line)

(***************************************************************************)
(* C7: an inclusion directive whose target exists is followed by both      *)
(* traversals wherever it stands in the raw text, also after a "%" or      *)
(* inside a stripped block: the target is visited, its citations are       *)
(* reported as when it is scanned alone, and its cited keys are numbered.  *)
(***************************************************************************)
C7_RawInclusionFollowed ==
    phase = "done" =>
        \A f \in scan_visited \cup num_visited : \A t \in DOMAIN tree :
            InclusionsOf(f, t) # {} =>
                /\ t \in scan_visited
                /\ t \in num_visited
                /\ ReportedFor(t) = Range(OwnOccurrences(t))
                /\ CleanedKeys(t) \subseteq DOMAIN numbers

\* main names sub only in inclusions that the cleaning removes (commented
\* out, or inside an \iffalse region), and sub's citations are reported and
\* numbered.
C7_Witness ==
    /\ phase = "done"
    /\ "sub" \in DOMAIN tree
    /\ InclusionsOf("main", "sub") # {}
    /\ \A n \in InclusionsOf("main", "sub") :
           IncludeMatches(tree["main"])[n].pos \notin Range(PreprocessKept(tree["main"]))
    /\ ReportedFor("sub") # {}
    /\ CleanedKeys("sub") # {}
    /\ CleanedKeys("sub") \subseteq DOMAIN numbers

(***************************************************************************)
(* C8: a citation command that starts after the first unescaped "%" of its *)
(* line is never reported and never numbered: every key of either result   *)
(* is cited by some command that starts before the "%" of its line.  The   *)
(* numbering pass removes blocks before it removes comments, so a "%" line *)
(* that closes an \iffalse region loses its "%" and keeps its citation.    *)
(***************************************************************************)
\* The keys of the citation commands of file f that start outside a comment.
UncommentedKeys(f) ==
    UNION {UNION {Range(SplitKeys(SubSeq(LinesOf(f)[n], m.gs, m.ge - 1))) :
                    m \in {c \in Range(CiteMatches(LinesOf(f)[n])) :
                              c.start < FirstUnescapedPercent(LinesOf(f)[n])}} :
           n \in 1..Len(LinesOf(f))}

C8_CommentedNeverCounted ==
    \A k \in DOMAIN occurrences \cup DOMAIN numbers :
        \E f \in DOMAIN tree : k \in UncommentedKeys(f)

(***************************************************************************)
(* C9: the 1-based column of every occurrence is the place of the first    *)
(* character of its key in the physical line: the line spells the key      *)
(* from character column - 1 on, and that character is no blank.           *)
(***************************************************************************)
\* The index of the symbol of line that starts at the 1-based column, or 0.
SymbolAtColumn(line, column) ==
    LET c == {i \in 1..Len(line) : CharOffset(line, i) = column - 1}
    IN IF c = {} THEN 0 ELSE MinOf(c)

C9_ColumnIsKeyStart ==
    \A k \in DOMAIN occurrences : \A n \in 1..Len(occurrences[k]) :
        LET o == occurrences[k][n]
            line == LinesOf(o.file)[o.line]
            i == SymbolAtColumn(line, o.column)
        IN /\ i # 0
           /\ ~IsSpace(line[i])
           /\ SubSeq(line, i, i + Len(k) - 1) = k

\* An occurrence of a key that follows a comma and a blank in its key list.
C9_Witness ==
    \E k \in DOMAIN occurrences : \E n \in 1..Len(occurrences[k]) :
        LET o == occurrences[k][n]
            line == LinesOf(o.file)[o.line]
            i == SymbolAtColumn(line, o.column)
        IN i >= 3 /\ line[i - 1] = " " /\ line[i - 2] = ","

(***************************************************************************)
(* C10: in one run of either traversal every file is read at most once,    *)
(* whatever the inclusion graph; a visited file contributes its            *)
(* citations once, and the traversals terminate.                           *)
(***************************************************************************)
ReadAtMostOnce ==
    \A f \in DOMAIN tree : scan_reads[f] <= 1 /\ num_reads[f] <= 1

ContributesOnce ==
    phase = "done" =>
        \A f \in DOMAIN tree :
            ReportedCount(f) = IF f \in scan_visited THEN Len(OwnOccurrences(f)) ELSE 0

\* A bound on the steps still to take: for a file not yet visited its whole
\* visit (the call, the return, and no more inclusions, lines or citation
\* commands than it has symbols), and for an activation what is left of it.
ScanCost(f) == 2 + 2 * Len(tree[f])
NumCost(f) == 2 + 2 * Len(tree[f])

RECURSIVE ScanUnvisitedLeft(_)
ScanUnvisitedLeft(S) ==
    IF S = {} THEN 0
    ELSE LET f == CHOOSE f \in S : TRUE IN ScanCost(f) + ScanUnvisitedLeft(S \ {f})

RECURSIVE NumUnvisitedLeft(_)
NumUnvisitedLeft(S) ==
    IF S = {} THEN 0
    ELSE LET f == CHOOSE f \in S : TRUE IN NumCost(f) + NumUnvisitedLeft(S \ {f})

RECURSIVE ScanStackLeft(_)
ScanStackLeft(stk) ==
    IF stk = <<>> THEN 0
    ELSE Len(Head(stk).incs) + (Len(LinesOf(Head(stk).file)) + 1 - Head(stk).line) + 1
         + ScanStackLeft(Tail(stk))

RECURSIVE NumStackLeft(_)
NumStackLeft(stk) ==
    IF stk = <<>> THEN 0
    ELSE Len(Head(stk).incs) + Len(Head(stk).cites) + 1 + NumStackLeft(Tail(stk))

StepsLeft(sv, ss, nv, ns) ==
    ScanUnvisitedLeft(DOMAIN tree \ sv) + ScanStackLeft(ss)
    + NumUnvisitedLeft(DOMAIN tree \ nv) + NumStackLeft(ns)

\* Some step of main() can be taken.
CanStep ==
    \/ phase \in {"scan_call", "num_call"}
    \/ phase = "scan" /\ scan_stack # <<>>
    \/ phase = "num" /\ num_stack # <<>>

\* Every step takes the traversals nearer to their end, and before the end
\* of main() there is a step to take.
Terminates ==
    /\ [][/\ StepsLeft(scan_visited', scan_stack', num_visited', num_stack')
              < StepsLeft(scan_visited, scan_stack, num_visited, num_stack)
          /\ StepsLeft(scan_visited', scan_stack', num_visited', num_stack') >= 0]_vars
    /\ [](phase # "done" => CanStep)

C10_ReadOnceTerminates ==
    /\ []ReadAtMostOnce
    /\ []ContributesOnce
    /\ Terminates

\* Both traversals are over for a tree in which main includes itself and
\* includes sub twice, and sub includes main.
C10_Witness ==
    /\ phase = "done"
    /\ "sub" \in DOMAIN tree
    /\ Cardinality(InclusionsOf("main", "sub")) >= 2
    /\ InclusionsOf("main", "main") # {}
    /\ InclusionsOf("sub", "main") # {}
    /\ ReportedCount("sub") > 0
    /\ scan_reads = [f \in DOMAIN tree |-> 1]
    /\ num_reads = [f \in DOMAIN tree |-> 1]

(***************************************************************************)
(* C18: the block state of the line loop is one of normal, in a block of   *)
(* some name, in a false conditional: in_block_env and in_iffalse are      *)
(* never both true, and in_block_name is set exactly when in_block_env is  *)
(* true.  The loop handles \iffalse before it looks at in_block_env, so an *)
(* \iffalse line inside a block sets in_iffalse while the block is open.   *)
(***************************************************************************)
C18_BlockStateExclusive ==
    \A n \in 1..Len(scan_stack) :
        /\ ~(scan_stack[n].in_block_env /\ scan_stack[n].in_iffalse)
        /\ (scan_stack[n].in_block_name # NoName) <=> scan_stack[n].in_block_env

(***************************************************************************)
(* C19: while the line loop is inside a block opened by \begin{A}, a line  *)
(* whose first end marker names another block than A (whatever the case of *)
(* the letters), or that holds no end marker, leaves the block open, also  *)
(* when \end{A} stands later on the line; the block closes only at a line  *)
(* whose first end marker is \end{A}; every line met inside the block is   *)
(* skipped, so that no citation is reported before the block closes, to    *)
(* the end of the file if it never does.                                   *)
(***************************************************************************)
\* the step is an iteration of the line loop of the file on top of the stack
IsLineStep ==
    /\ phase = "scan"
    /\ scan_stack # <<>>
    /\ Len(scan_stack') = Len(scan_stack)
    /\ Top(scan_stack).incs = <<>>
    /\ Top(scan_stack').line = Top(scan_stack).line + 1

\* the line the iteration handles
CurLine == LinesOf(Top(scan_stack).file)[Top(scan_stack).line]

\* the names of the end markers of a line, and the name of the first of
\* them ("" if there is none)
EndNamesOnLine(line) == {EndName(line[i]) : i \in 1..Len(line)} \ {""}
FirstEndName(line) ==
    LET es == {i \in 1..Len(line) : EndName(line[i]) # ""}
    IN IF es = {} THEN "" ELSE EndName(line[MinOf(es)])

BlockEndsByFirstMarker ==
    (IsLineStep /\ Top(scan_stack).in_block_env)
        => /\ occurrences' = occurrences
           /\ FirstEndName(CurLine) # Top(scan_stack).in_block_name
                 => /\ Top(scan_stack').in_block_env
                    /\ Top(scan_stack').in_block_name = Top(scan_stack).in_block_name
           /\ ~Top(scan_stack').in_block_env
                 => Top(scan_stack).in_block_name \in EndNamesOnLine(CurLine)

C19_BlockClosesAtFirstMarker == [][BlockEndsByFirstMarker]_vars

\* C19 as it is worded: every line that holds an end marker of another name
\* leaves the block open
MismatchedEndKeepsOpen ==
    (IsLineStep /\ Top(scan_stack).in_block_env)
        => /\ occurrences' = occurrences
           /\ EndNamesOnLine(CurLine) \ {Top(scan_stack).in_block_name} # {}
                 => Top(scan_stack').in_block_env
           /\ ~Top(scan_stack').in_block_env
                 => Top(scan_stack).in_block_name \in EndNamesOnLine(CurLine)

C19_MismatchedEndLeavesOpen == [][MismatchedEndKeepsOpen]_vars

\* a block that \end{comment} leaves open and \end{Verbatim} closes: of the
\* two citations, the one after the block is reported
C19_Witness ==
    /\ phase = "done"
    /\ tree = [main |-> FileOf(<<<<"\\begin{verbatim}">>, <<"\\end{comment}">>,
                                 Cite(<<"a">>), <<"\\end{Verbatim}">>, Cite(<<"a">>)>>)]
    /\ ReportedFor("main") = {[key |-> <<"a">>, line |-> 5, column |-> 7]}

(***************************************************************************)
(* C20: the key list of every citation command is split on commas, and    *)
(* the scanner reports one occurrence for each element that is not empty   *)
(* after trimming, from left to right, and none for the other elements; an *)
(* empty element does not keep the keys after it from being reported.  The *)
(* key item loop stops at an element that holds no character: of           *)
(* \cite{a,,b} it reports a only, of \cite{,a} nothing.                    *)
(***************************************************************************)
\* the file holds no block marker and no conditional marker
PlainFile(f) ==
    \A i \in 1..Len(tree[f]) :
        /\ BeginName(tree[f][i]) = "" /\ EndName(tree[f][i]) = ""
        /\ tree[f][i] \notin IffalseSyms \cup FiSyms

\* the elements of the key lists of a line that are not empty after trimming
ListedKeys(line) ==
    LET seg == SubSeq(line, 1, FirstUnescapedPercent(line) - 1)
        ms == CiteMatches(seg)
    IN ConcatAll([n \in 1..Len(ms) |-> SplitKeys(SubSeq(seg, ms[n].gs, ms[n].ge - 1))])

\* the keys of a set of occurrences of one line, from left to right
RECURSIVE KeysByColumn(_)
KeysByColumn(os) ==
    IF os = {} THEN <<>>
    ELSE LET o == CHOOSE o \in os : \A q \in os : o.column <= q.column
         IN <<o.key>> \o KeysByColumn(os \ {o})

C20_EveryListedKeyReported ==
    phase = "done" =>
        \A f \in scan_visited : PlainFile(f) =>
            \A n \in 1..Len(LinesOf(f)) :
                KeysByColumn({o \in ReportedFor(f) : o.line = n}) = ListedKeys(LinesOf(f)[n])

(***************************************************************************)
(* C22: the snippet of every occurrence has at most 240 characters, the    *)
(* marker of a cut snippet counted, and a line segment that has at most    *)
(* 240 characters without the blanks at its ends is stored as it is.  The  *)
(* code keeps 240 characters of a longer segment and puts the marker after *)
(* them: a cut snippet has 240 characters and the marker's.                *)
(***************************************************************************)
\* the number of characters of a snippet
SnippetLen(sn) == CharLen(sn.text) + sn.part + Len(sn.mark)

\* the line segment an occurrence stands on, without the blanks at its ends
SegmentOf(o) ==
    LET line == LinesOf(o.file)[o.line]
    IN Strip(SubSeq(line, 1, FirstUnescapedPercent(line) - 1))

C22_SnippetAtMostLimit ==
    \A k \in DOMAIN occurrences : \A n \in 1..Len(occurrences[k]) :
        /\ SnippetLen(occurrences[k][n].snippet) <= SnippetLimit
        /\ CharLen(SegmentOf(occurrences[k][n])) <= SnippetLimit
              => occurrences[k][n].snippet =
                    [text |-> SegmentOf(occurrences[k][n]), part |-> 0, mark |-> ""]

(***************************************************************************)
(* C23: with the bottom anchor, the acceptance tolerance of                *)
(* find_nearest_margin_lineno is 0.9 * y_tol + 1.5 for every base          *)
(* tolerance y_tol of the band, not the raw y_tol: a resolve call that     *)
(* looks up a page of the PDF with a band reports the number of the        *)
(* nearest candidate exactly when its vertical distance is at most that    *)
(* value, and no printed line number otherwise.                            *)
(***************************************************************************)
\* 0.9 * y_tol + 1.5, in hundredths
NinetyPercentTol(y_tol) == (9 * y_tol) \div 10 + 150

\* the last call looked up a page of the PDF with the band self._band
LookedUpWithBand ==
    /\ calls > 0
    /\ SynctexView(last_tool).exc = NoExc
    /\ self_band # None
    /\ 1 <= LastPage /\ LastPage <= Len(pdf_doc)

LastCandidates ==
    Candidates(pdf_doc[LastPage], SynctexView(last_tool).y, self_band[1])

NearestDy == MinOf({LastCandidates[i].dy : i \in 1..Len(LastCandidates)})

C23_BottomTolNinetyPercent ==
    LookedUpWithBand =>
        (last_result.value[2] # None
            <=> /\ LastCandidates # <<>>
                /\ 100 * NearestDy <= NinetyPercentTol(self_band[1].y_tol))

(***************************************************************************)
(* C24: the scanner and the numbering pass filter alike: for every source  *)
(* tree, the keys with at least one occurrence in                          *)
(* scan_tex_project_citations are the keys compute_citation_numbers        *)
(* numbers, so that every card of a cited record has a pre-assigned        *)
(* number.                                                                 *)
(***************************************************************************)
C24_SameKeysScannedAndNumbered ==
    phase = "done" => DOMAIN occurrences = DOMAIN numbers

(***************************************************************************)
(* C25: the scanner's block state is local to one file.  Scanning of every *)
(* file starts in the normal state, scanning an included file leaves the   *)
(* block state of the including file unchanged, and a verbatim-like block  *)
(* or \iffalse region that an included file leaves open suppresses no      *)
(* citation of another file: every file read reports what its line loop    *)
(* reports for it alone.                                                   *)
(***************************************************************************)
FrameBlockState(fr) == <<fr.in_block_env, fr.in_block_name, fr.in_iffalse>>
NormalState == <<FALSE, NoName, FALSE>>

\* the block state the line loop ends with on a file scanned alone
RECURSIVE OwnEndStateFrom(_, _, _, _, _)
OwnEndStateFrom(ls, n, env, name, iff) ==
    IF n > Len(ls) THEN <<env, name, iff>>
    ELSE LET r == LineStep(env, name, iff, ls[n])
         IN OwnEndStateFrom(ls, n + 1, r.in_block_env, r.in_block_name, r.in_iffalse)

OwnEndState(f) == OwnEndStateFrom(LinesOf(f), 1, FALSE, NoName, FALSE)

\* a call of scan_file starts in the normal state at its first line, and
\* no step changes the block state of a call other than the one at work
FramesKeepBlockState ==
    \A i \in 1..Len(scan_stack') :
        IF i > Len(scan_stack)
        THEN FrameBlockState(scan_stack'[i]) = NormalState /\ scan_stack'[i].line = 1
        ELSE (i < Len(scan_stack) \/ i < Len(scan_stack'))
                => FrameBlockState(scan_stack'[i]) = FrameBlockState(scan_stack[i])

ScannedFilesReportAlone ==
    phase \notin {"scan_call", "scan"} =>
        \A f \in DOMAIN tree :
            ReportedFor(f) = IF f \in scan_visited THEN Range(OwnOccurrences(f)) ELSE {}

C25_BlockStateLocalToFile == []ScannedFilesReportAlone /\ [][FramesKeepBlockState]_vars

\* The included file was scanned and its line loop ended inside a block or
\* an \iffalse region; the main file, scanned after it, reported a citation.
C25_Witness ==
    /\ phase = "done"
    /\ "sub" \in DOMAIN tree
    /\ "sub" \in scan_visited
    /\ OwnEndState("sub") # NormalState
    /\ ReportedFor("main") # {}

====
